---- MODULE Spec2Model ----
(***************************************************************************)
(* Branch-name generation of jira-to-branch (src/branch.ts) and the AI     *)
(* summary call it relies on (src/ai-service.ts, src/ai-providers.ts).     *)
(*                                                                         *)
(* A JavaScript string is modelled as a sequence of one-character strings, *)
(* so that every regular-expression replace, split, trim and substring of  *)
(* the source is computed character by character.                          *)
(***************************************************************************)
EXTENDS Integers, Sequences, FiniteSets, TLC

VARIABLES issueKey, summary, description, prefix, openaiApiKey,
          pc, isEnabled, calls, response, aiSummary, tier,
          analysis, nameParts, generativeName, result, text, tokens,
          method, returned, error,
          commitLog, commitMessage, configLoaded, sent, prTitle,
          aiConfig, chatModel, request, invoked, warning,
          yes, branch, repo, commands, checked

vars == <<issueKey, summary, description, prefix, openaiApiKey,
          pc, isEnabled, calls, response, aiSummary, tier,
          analysis, nameParts, generativeName, result, text, tokens,
          method, returned, error,
          commitLog, commitMessage, configLoaded, sent, prTitle,
          aiConfig, chatModel, request, invoked, warning,
          yes, branch, repo, commands, checked>>

\* JavaScript null / undefined (an absent optional argument, a null result).
Null == <<"null">>

\* Marker of a chat-completion call that rejects (network, auth, provider error).
Throws == <<"throws">>

(***************************************************************************)
(* Program constants                                                       *)
(***************************************************************************)
MAX_BRANCH_LENGTH == 50

MAX_GENERATIVE_LENGTH == 30

(***************************************************************************)
(* Bounds of the model                                                     *)
(***************************************************************************)
\* Longest text handed to tokenizeText in SpecTokenize.
MaxTextLen == 4

\* Most words in a generated summary in SpecFallback.
MaxWords == 3

\* Longest branch prefix, of the long prefixes tried in Spec.
MaxPrefixLen == 48

\* Longest one-word suffix the model returns, of the long suffixes tried in Spec.
MaxSuffixLen == 43

\* Length of the longest commit subject in SpecPullRequest, after its first word.
MaxSubjectLen == 2000

\* Longest text handed to sanitizeBranchName in SpecSanitize.
MaxNameLen == 4

\* Longest text of ticket-id characters handed to extractJiraKey in SpecExtract.
MaxKeyLen == 5

(***************************************************************************)
(* Characters and JavaScript string primitives                             *)
(***************************************************************************)
UpperChars == <<"A","B","C","D","E","F","G","H","I","J","K","L","M","N","O","P","Q","R","S","T","U","V","W","X","Y","Z">>

LowerChars == <<"a","b","c","d","e","f","g","h","i","j","k","l","m","n","o","p","q","r","s","t","u","v","w","x","y","z">>

DigitChars == {"0","1","2","3","4","5","6","7","8","9"}

\* \s of a JavaScript regular expression (the members that occur in the model).
SpaceChars == {" ", "\t", "\n", "\r"}

Range(s) == {s[i] : i \in 1..Len(s)}

\* \w of a JavaScript regular expression: [A-Za-z0-9_].
IsWordChar(c) == c \in Range(UpperChars) \cup Range(LowerChars) \cup DigitChars \cup {"_"}

IsSpace(c) == c \in SpaceChars

Min(a, b) == IF a < b THEN a ELSE b

\* A value used as a condition: null, undefined and "" are falsy.
Truthy(v) == v # Null /\ v # << >>

\* Character.toLowerCase() on the characters of the model.
LowerChar(c) ==
    IF c \in Range(UpperChars)
    THEN LowerChars[CHOOSE i \in 1..Len(UpperChars) : UpperChars[i] = c]
    ELSE c

\* String.prototype.toLowerCase
toLowerCase(s) == [i \in 1..Len(s) |-> LowerChar(s[i])]

\* String.prototype.substring(0, n): a negative n counts as 0, n beyond the end as the length.
substring0(s, n) == SubSeq(s, 1, Min(IF n > 0 THEN n ELSE 0, Len(s)))

\* String.prototype.trim
RECURSIVE trimStart(_)
trimStart(s) == IF s # << >> /\ IsSpace(Head(s)) THEN trimStart(Tail(s)) ELSE s

RECURSIVE trimEnd(_)
trimEnd(s) ==
    IF s # << >> /\ IsSpace(s[Len(s)]) THEN trimEnd(SubSeq(s, 1, Len(s) - 1)) ELSE s

trim(s) == trimEnd(trimStart(s))

\* The indices 1..n, in order.
indices(n) == [i \in 1..n |-> i]

\* .replace(/^X+|X+$/g, '') for a character class X.
stripEdges(s, class) ==
    LET keep == SelectSeq(indices(Len(s)), LAMBDA i : s[i] \notin class)
    IN  IF keep = << >> THEN << >> ELSE SubSeq(s, keep[1], keep[Len(keep)])

\* String.prototype.replace(/X+/g, r) for a character class X: every maximal
\* run of characters of the class becomes one r.
collapseRuns(s, class, r) ==
    LET kept == SelectSeq(indices(Len(s)), LAMBDA i : ~(s[i] \in class /\ i > 1 /\ s[i - 1] \in class))
    IN  [k \in 1..Len(kept) |-> IF s[kept[k]] \in class THEN r ELSE s[kept[k]]]

\* String.prototype.split(ch) for a one-character separator: the pieces
\* between the separators, empty pieces kept; "" gives [""].
split(s, ch) ==
    LET seps == SelectSeq(indices(Len(s)), LAMBDA i : s[i] = ch)
        from(k) == IF k = 1 THEN 1 ELSE seps[k - 1] + 1
        to(k)   == IF k > Len(seps) THEN Len(s) ELSE seps[k] - 1
    IN  [k \in 1..(Len(seps) + 1) |-> SubSeq(s, from(k), to(k))]

\* String.prototype.split(/\s+/): a run of whitespace is one separator; a
\* leading or trailing run leaves an empty first or last piece.
splitSpaces(s) == split(collapseRuns(s, SpaceChars, " "), " ")

\* Array.prototype.join(sep)
RECURSIVE join(_, _)
join(parts, sep) ==
    IF parts = << >> THEN << >>
    ELSE IF Len(parts) = 1 THEN parts[1]
    ELSE parts[1] \o sep \o join(Tail(parts), sep)

\* Array.from(new Set(seq)), [...new Set(seq)]: first occurrences, in order.
RECURSIVE uniq(_, _)
uniq(s, seen) ==
    IF s = << >> THEN << >>
    ELSE IF Head(s) \in seen THEN uniq(Tail(s), seen)
    ELSE <<Head(s)>> \o uniq(Tail(s), seen \cup {Head(s)})

\* String.prototype.endsWith
endsWith(s, suffix) ==
    Len(s) >= Len(suffix) /\ SubSeq(s, Len(s) - Len(suffix) + 1, Len(s)) = suffix

\* String.prototype.startsWith
startsWith(s, p) == Len(s) >= Len(p) /\ SubSeq(s, 1, Len(p)) = p

\* /^\d+$/
IsDigits(s) == s # << >> /\ \A i \in 1..Len(s) : s[i] \in DigitChars

(***************************************************************************)
(* Lexicon (src/branch.ts)                                                 *)
(***************************************************************************)
\* Common stop words to filter out: the is at which ...
STOP_WORDS == {
    <<"t","h","e">>,
    <<"i","s">>,
    <<"a","t">>,
    <<"w","h","i","c","h">>,
    <<"o","n">>,
    <<"a","n","d">>,
    <<"a">>,
    <<"t","o">>,
    <<"a","r","e">>,
    <<"a","s">>,
    <<"w","a","s">>,
    <<"w","i","l","l">>,
    <<"b","e">>,
    <<"h","a","v","e">>,
    <<"h","a","s">>,
    <<"h","a","d">>,
    <<"b","y">>,
    <<"f","o","r">>,
    <<"o","f">>,
    <<"w","i","t","h">>,
    <<"f","r","o","m">>,
    <<"a","n">>,
    <<"b","u","t">>,
    <<"o","r">>,
    <<"i","f">>,
    <<"t","h","i","s">>,
    <<"t","h","a","t">>,
    <<"i","t">>,
    <<"i","n">>,
    <<"w","e">>,
    <<"y","o","u">>,
    <<"t","h","e","y">>,
    <<"c","a","n">>,
    <<"s","h","o","u","l","d">>,
    <<"w","o","u","l","d">>,
    <<"c","o","u","l","d">>,
    <<"m","a","y">>,
    <<"m","i","g","h","t">>,
    <<"m","u","s","t">>,
    <<"s","h","a","l","l">>
}

\* High-priority technical keywords: api endpoint service component ...
TECH_KEYWORDS == {
    <<"a","p","i">>,
    <<"e","n","d","p","o","i","n","t">>,
    <<"s","e","r","v","i","c","e">>,
    <<"c","o","m","p","o","n","e","n","t">>,
    <<"m","o","d","u","l","e">>,
    <<"f","u","n","c","t","i","o","n">>,
    <<"m","e","t","h","o","d">>,
    <<"d","a","t","a","b","a","s","e">>,
    <<"d","b">>,
    <<"m","i","g","r","a","t","i","o","n">>,
    <<"s","c","h","e","m","a">>,
    <<"t","a","b","l","e">>,
    <<"m","o","d","e","l">>,
    <<"c","o","n","t","r","o","l","l","e","r">>,
    <<"v","i","e","w">>,
    <<"a","u","t","h">>,
    <<"a","u","t","h","e","n","t","i","c","a","t","i","o","n">>,
    <<"a","u","t","h","o","r","i","z","a","t","i","o","n">>,
    <<"s","e","c","u","r","i","t","y">>,
    <<"v","a","l","i","d","a","t","i","o","n">>,
    <<"e","r","r","o","r">>,
    <<"b","u","g">>,
    <<"f","i","x">>,
    <<"f","e","a","t","u","r","e">>,
    <<"e","n","h","a","n","c","e","m","e","n","t">>,
    <<"i","m","p","r","o","v","e","m","e","n","t">>,
    <<"o","p","t","i","m","i","z","a","t","i","o","n">>,
    <<"i","n","t","e","g","r","a","t","i","o","n">>,
    <<"c","o","n","f","i","g">>,
    <<"c","o","n","f","i","g","u","r","a","t","i","o","n">>,
    <<"s","e","t","u","p">>,
    <<"d","e","p","l","o","y","m","e","n","t">>,
    <<"t","e","s","t","i","n","g">>,
    <<"r","e","f","a","c","t","o","r">>,
    <<"c","l","e","a","n","u","p">>,
    <<"u","p","d","a","t","e">>,
    <<"u","p","g","r","a","d","e">>,
    <<"i","n","s","t","a","l","l">>,
    <<"r","e","m","o","v","e">>,
    <<"d","e","l","e","t","e">>,
    <<"u","s","e","r">>,
    <<"a","d","m","i","n">>,
    <<"d","a","s","h","b","o","a","r","d">>,
    <<"l","o","g","i","n">>,
    <<"l","o","g","o","u","t">>,
    <<"r","e","g","i","s","t","e","r">>,
    <<"p","r","o","f","i","l","e">>,
    <<"n","o","t","i","f","i","c","a","t","i","o","n">>,
    <<"e","m","a","i","l">>,
    <<"p","a","y","m","e","n","t">>,
    <<"o","r","d","e","r">>,
    <<"p","r","o","d","u","c","t">>,
    <<"s","e","a","r","c","h">>,
    <<"f","i","l","t","e","r">>,
    <<"s","o","r","t">>,
    <<"p","a","g","i","n","a","t","i","o","n">>,
    <<"e","x","p","o","r","t">>,
    <<"i","m","p","o","r","t">>,
    <<"u","p","l","o","a","d">>,
    <<"d","o","w","n","l","o","a","d">>,
    <<"c","a","c","h","e">>,
    <<"s","e","s","s","i","o","n">>,
    <<"t","o","k","e","n">>,
    <<"w","e","b","h","o","o","k">>,
    <<"r","e","s","p","o","n","s","e">>,
    <<"r","e","q","u","e","s","t">>
}

\* Action verbs that indicate what the ticket is about: add create build implement ...
ACTION_WORDS == {
    <<"a","d","d">>,
    <<"c","r","e","a","t","e">>,
    <<"b","u","i","l","d">>,
    <<"i","m","p","l","e","m","e","n","t">>,
    <<"d","e","v","e","l","o","p">>,
    <<"g","e","n","e","r","a","t","e">>,
    <<"s","e","t","u","p">>,
    <<"r","e","m","o","v","e">>,
    <<"d","e","l","e","t","e">>,
    <<"c","l","e","a","n">>,
    <<"c","l","e","a","r">>,
    <<"r","e","s","e","t">>,
    <<"p","u","r","g","e">>,
    <<"u","p","d","a","t","e">>,
    <<"m","o","d","i","f","y">>,
    <<"c","h","a","n","g","e">>,
    <<"e","d","i","t">>,
    <<"a","d","j","u","s","t">>,
    <<"c","o","n","f","i","g","u","r","e">>,
    <<"s","e","t">>,
    <<"f","i","x">>,
    <<"r","e","s","o","l","v","e">>,
    <<"s","o","l","v","e">>,
    <<"h","a","n","d","l","e">>,
    <<"d","e","b","u","g">>,
    <<"p","a","t","c","h">>,
    <<"i","m","p","r","o","v","e">>,
    <<"e","n","h","a","n","c","e">>,
    <<"o","p","t","i","m","i","z","e">>,
    <<"r","e","f","a","c","t","o","r">>,
    <<"r","e","s","t","r","u","c","t","u","r","e">>,
    <<"s","t","r","e","a","m","l","i","n","e">>,
    <<"i","n","t","e","g","r","a","t","e">>,
    <<"c","o","n","n","e","c","t">>,
    <<"l","i","n","k">>,
    <<"s","y","n","c">>,
    <<"m","e","r","g","e">>,
    <<"c","o","m","b","i","n","e">>,
    <<"v","a","l","i","d","a","t","e">>,
    <<"v","e","r","i","f","y">>,
    <<"c","h","e","c","k">>,
    <<"e","n","s","u","r","e">>,
    <<"c","o","n","f","i","r","m">>,
    <<"t","e","s","t">>,
    <<"e","n","a","b","l","e">>,
    <<"d","i","s","a","b","l","e">>,
    <<"t","o","g","g","l","e">>,
    <<"a","c","t","i","v","a","t","e">>,
    <<"d","e","a","c","t","i","v","a","t","e">>,
    <<"s","w","i","t","c","h">>
}

(***************************************************************************)
(* BranchNameGenerator, the rule-based engine (src/branch.ts)              *)
(***************************************************************************)
\* .replace(/[^\w\s-]/g, ' ')
replaceSpecialChars(s) ==
    [i \in 1..Len(s) |->
        IF IsWordChar(s[i]) \/ IsSpace(s[i]) \/ s[i] = "-" THEN s[i] ELSE " "]

\* .replace(/[^\w\s]/g, ' ')
replaceNonWordChars(s) ==
    [i \in 1..Len(s) |-> IF IsWordChar(s[i]) \/ IsSpace(s[i]) THEN s[i] ELSE " "]

\* keepToken with the length test off by one (>= 2 for > 2).
keepTokenAtLeast2(token) == Len(token) >= 2 /\ token \notin STOP_WORDS /\ ~IsDigits(token)

\* The filter of tokenizeText.
keepToken(token) == Len(token) > 2 /\ token \notin STOP_WORDS /\ ~IsDigits(token)

tokenizeText(t) ==
    SelectSeq(
        splitSpaces(trim(collapseRuns(replaceSpecialChars(toLowerCase(t)), SpaceChars, " "))),
        keepToken)

extractActions(toks) == SelectSeq(toks, LAMBDA token : token \in ACTION_WORDS)

extractEntities(toks) ==
    LET isEntity(token) ==
            /\ ~(token \in ACTION_WORDS \/ token \in TECH_KEYWORDS)
            /\ \/ Len(token) > 4
               \/ endsWith(token, <<"i","n","g">>)
               \/ endsWith(token, <<"t","i","o","n">>)
               \/ endsWith(token, <<"m","e","n","t">>)
    IN  uniq(SelectSeq(toks, isEntity), {})

extractTechTerms(toks) == SelectSeq(toks, LAMBDA token : token \in TECH_KEYWORDS)

\* Array.prototype.find: the first element of the set, or Null.
RECURSIVE find(_, _)
find(s, set) ==
    IF s = << >> THEN Null
    ELSE IF Head(s) \in set THEN Head(s) ELSE find(Tail(s), set)

\* determinePrimaryAction that takes the first action token and never looks at
\* the summary's own words.
determinePrimaryActionFromTokens(sum, actions) ==
    IF Len(actions) > 0 THEN actions[1] ELSE Null

determinePrimaryAction(sum, actions) ==
    LET summaryWords == splitSpaces(toLowerCase(sum))
        firstAction  == find(summaryWords, ACTION_WORDS)
    IN  IF Truthy(firstAction) THEN firstAction
        ELSE IF Len(actions) > 0 THEN actions[1] ELSE Null

commonWords == {<<"u","s","e","r">>, <<"s","y","s","t","e","m">>, <<"p","a","g","e">>, <<"f","o","r","m">>, <<"b","u","t","t","o","n">>, <<"f","i","e","l","d">>}

\* tokenScore with `else if` before the technical-keyword bonus: a word that
\* is both an action word and a technical keyword gets the action bonus only.
tokenScoreElseIf(token, entities) ==
      1
    + (IF token \in ACTION_WORDS THEN 5
       ELSE IF token \in TECH_KEYWORDS THEN 4 ELSE 0)
    + (IF token \in Range(entities) THEN 2 ELSE 0)
    + (IF Len(token) > 6 THEN 1 ELSE 0)
    - (IF token \in commonWords THEN 1 ELSE 0)

\* The score rankTokensByRelevance gives a token.
tokenScore(token, entities) ==
      1
    + (IF token \in ACTION_WORDS THEN 5 ELSE 0)
    + (IF token \in TECH_KEYWORDS THEN 4 ELSE 0)
    + (IF token \in Range(entities) THEN 2 ELSE 0)
    + (IF Len(token) > 6 THEN 1 ELSE 0)
    - (IF token \in commonWords THEN 1 ELSE 0)

\* Array.prototype.sort with the comparator score(b) - score(a): stable, so a
\* token goes behind every token already placed whose score is not lower.
RECURSIVE insertByScore(_, _, _)
insertByScore(sorted, token, entities) ==
    IF sorted = << >> THEN <<token>>
    ELSE IF tokenScore(Head(sorted), entities) >= tokenScore(token, entities)
         THEN <<Head(sorted)>> \o insertByScore(Tail(sorted), token, entities)
         ELSE <<token>> \o sorted

RECURSIVE sortByScore(_, _, _)
sortByScore(rest, sorted, entities) ==
    IF rest = << >> THEN sorted
    ELSE sortByScore(Tail(rest), insertByScore(sorted, Head(rest), entities), entities)

rankTokensByRelevance(toks, actions, entities, techTerms) ==
    sortByScore(uniq(toks, {}), << >>, entities)

analyzeTicketContent(sum, desc) ==
    LET combinedText == sum \o <<" ">> \o (IF Truthy(desc) THEN desc ELSE << >>)
        toks         == tokenizeText(combinedText)
        actions      == extractActions(toks)
        entities     == extractEntities(toks)
        techTerms    == extractTechTerms(toks)
    IN  [primaryAction   |-> determinePrimaryAction(sum, actions),
         actions         |-> actions,
         entities        |-> entities,
         techTerms       |-> techTerms,
         rankedTokens    |-> rankTokensByRelevance(toks, actions, entities, techTerms),
         originalSummary |-> sum]

\* walkRankedTokens with > for >= in the two limits of the loop.
RECURSIVE walkRankedTokensOffByOne(_, _, _)
walkRankedTokensOffByOne(st, rankedTokens, i) ==
    IF i > Len(rankedTokens) THEN st
    ELSE LET token == rankedTokens[i] IN
         IF token \in st.usedWords THEN walkRankedTokensOffByOne(st, rankedTokens, i + 1)
         ELSE LET next == [nameParts |-> Append(st.nameParts, token),
                           usedWords |-> st.usedWords \cup {token}]
              IN  IF \/ Len(next.nameParts) > 4
                     \/ Len(join(next.nameParts, <<"-">>)) > MAX_GENERATIVE_LENGTH
                  THEN next
                  ELSE walkRankedTokensOffByOne(next, rankedTokens, i + 1)

\* The loop over rankedTokens of generateConciseName, from token i on.
RECURSIVE walkRankedTokens(_, _, _)
walkRankedTokens(st, rankedTokens, i) ==
    IF i > Len(rankedTokens) THEN st
    ELSE LET token == rankedTokens[i] IN
         IF token \in st.usedWords THEN walkRankedTokens(st, rankedTokens, i + 1)
         ELSE LET next == [nameParts |-> Append(st.nameParts, token),
                           usedWords |-> st.usedWords \cup {token}]
              IN  IF \/ Len(next.nameParts) >= 4
                     \/ Len(join(next.nameParts, <<"-">>)) >= MAX_GENERATIVE_LENGTH
                  THEN next
                  ELSE walkRankedTokens(next, rankedTokens, i + 1)

\* nameParts and usedWords when the loop over rankedTokens has ended.
rankedParts(a) ==
    LET start == IF Truthy(a.primaryAction) THEN <<a.primaryAction>> ELSE << >>
    IN  walkRankedTokens([nameParts |-> start, usedWords |-> Range(start)],
                         a.rankedTokens, 1)

\* The words the fallback takes from the raw summary.
backfillWords(originalSummary, usedWords) ==
    LET candidates ==
            SelectSeq(splitSpaces(replaceNonWordChars(toLowerCase(originalSummary))),
                      LAMBDA word : /\ Len(word) > 3
                                    /\ word \notin STOP_WORDS
                                    /\ word \notin usedWords)
    IN  SubSeq(candidates, 1, Min(3, Len(candidates)))

\* collectNameParts that backfills with up to 2 parts (<= 2 for < 2).
collectNamePartsUpTo2(a) ==
    LET st == rankedParts(a)
    IN  IF Len(st.nameParts) <= 2
        THEN st.nameParts \o backfillWords(a.originalSummary, st.usedWords)
        ELSE st.nameParts

\* nameParts as joined by generateConciseName.
collectNameParts(a) ==
    LET st == rankedParts(a)
    IN  IF Len(st.nameParts) < 2
        THEN st.nameParts \o backfillWords(a.originalSummary, st.usedWords)
        ELSE st.nameParts

\* The final cleanup of generateConciseName before the length cut:
\* .replace(/-+/g, '-').replace(/^-+|-+$/g, '')
cleanupName(s) == stripEdges(collapseRuns(s, {"-"}, "-"), {"-"})

\* generateConciseName without the final `|| 'update'`.
generateConciseNameNoUpdate(a) ==
    substring0(cleanupName(join(collectNameParts(a), <<"-">>)), MAX_GENERATIVE_LENGTH)

generateConciseName(a) ==
    LET branchName ==
            substring0(cleanupName(join(collectNameParts(a), <<"-">>)), MAX_GENERATIVE_LENGTH)
    IN  IF Truthy(branchName) THEN branchName ELSE <<"u","p","d","a","t","e">>

ensureValidLength(branchName) ==
    IF Len(branchName) <= MAX_BRANCH_LENGTH THEN branchName
    ELSE LET parts          == split(branchName, "/")
             actualBranch   == parts[Len(parts)]
             pre            == IF Len(parts) > 1
                               THEN join(SubSeq(parts, 1, Len(parts) - 1), <<"/">>) \o <<"/">>
                               ELSE << >>
             pieces         == split(actualBranch, "-")
             ticketId       == pieces[1]
             generativePart == join(Tail(pieces), <<"-">>)
             maxGenerativeLength ==
                 MAX_BRANCH_LENGTH - Len(pre) - Len(ticketId) - 1
             truncatedGenerative == substring0(generativePart, maxGenerativeLength)
         IN  pre \o ticketId \o <<"-">> \o truncatedGenerative

\* composeBranch that lower-cases the ticket id.
composeBranchLowerCase(ticketId, name, pfx) ==
    LET branchName      == toLowerCase(ticketId) \o <<"-">> \o name
        finalBranchName == IF Truthy(pfx) THEN pfx \o <<"/">> \o branchName ELSE branchName
    IN  ensureValidLength(finalBranchName)

\* `${ticketId}-${name}`, prefixed with `${prefix}/` when a prefix is given,
\* then ensureValidLength: the tail of generate's model branch and of generateFallback.
composeBranch(ticketId, name, pfx) ==
    LET branchName      == ticketId \o <<"-">> \o name
        finalBranchName == IF Truthy(pfx) THEN pfx \o <<"/">> \o branchName ELSE branchName
    IN  ensureValidLength(finalBranchName)

generateFallback(key, sum, desc, pfx) ==
    composeBranch(key, generateConciseName(analyzeTicketContent(sum, desc)), pfx)

(***************************************************************************)
(* Inputs                                                                  *)
(***************************************************************************)
\* The string of n characters c.
Rep(c, n) == [i \in 1..n |-> c]

\* All texts of up to n characters of the set chars.
TextsUpTo(chars, n) == UNION {[1..k -> chars] : k \in 0..n}

\* All texts of up to n words of the set words, joined by single spaces.
PhrasesUpTo(words, n) ==
    {join(ws, <<" ">>) : ws \in UNION {[1..k -> words] : k \in 0..n}}

TicketIds == {<<"E","H","-","1","2","3","4">>, <<"e","h","-","1","2">>}

Summaries == {
    << >>,
    <<"D","o"," ","i","t">>,
    <<"F","i","x"," ","u","s","e","r"," ","a","u","t","h","e","n","t","i","c","a","t","i","o","n"," ","b","u","g">>,
    <<"I","m","p","l","e","m","e","n","t"," ","v","e","r","y"," ","l","o","n","g"," ","d","e","t","a","i","l","e","d"," ","p","a","y","m","e","n","t"," ","g","a","t","e","w","a","y"," ","i","n","t","e","g","r","a","t","i","o","n">>
}

Descriptions == {Null, <<"U","s","e","r","s"," ","c","a","n","n","o","t"," ","l","o","g","i","n",".">>}

ApiKeys == {Null, << >>, <<"s","k">>}

\* What chatModel.invoke can do: reject, or resolve with some content.
Responses ==
    {Throws, Null, << >>, <<" ","\n">>,
     <<"f","i","x","-","a","u","t","h","-","b","u","g">>, <<" ","f","i","x","-","a","u","t","h","-","b","u","g","\n">>, <<"F","i","x"," ","a","u","t","h"," ","b","u","g",".">>, <<"'","d","r","o","p"," ","t","a","b","l","e","'">>,
     <<".","f","i","x">>, <<"f","i","x","-","a","u","t","h",".","l","o","c","k">>,
     <<"f","i","x","/">> \o Rep("b", MAX_BRANCH_LENGTH)}
    \cup {Rep("a", n) : n \in (MaxSuffixLen - 2)..MaxSuffixLen}

\* Words of the summaries of SpecFallback: action words as typed in a title,
\* stop words, short words, digits, punctuation, hyphenated and long words.
SummaryWords == {
    <<"F","i","x">>, <<"f","i","x",",">>, <<"u","p","d","a","t","e">>, <<"t","h","e">>, <<"i","t">>, <<"1","2","3">>, <<"-","-","-">>,
    <<"a","u","t","h","-","f","l","o","w">>, <<"a","u","t","h","e","n","t","i","c","a","t","i","o","n">>, <<"c","o","n","f","i","g","u","r","a","t","i","o","n">>
}

\* A four-word title whose first three parts join to 29 characters.
FallbackSummaries ==
    PhrasesUpTo(SummaryWords, MaxWords) \cup {<<"F","i","x"," ","a","u","t","h","e","n","t","i","c","a","t","i","o","n"," ","m","i","d","d","l","e","w","a","r","e"," ","c","r","a","s","h">>}

\* The texts of SpecTokenize: all short texts of a few characters, and
\* phrases of a few words.
Texts ==
    TextsUpTo({"t", "h", "e", "T", "1", " ", "-", "!"}, MaxTextLen)
    \cup PhrasesUpTo({<<"F","i","x",",">>, <<"t","h","e">>, <<"i","t">>, <<"1","2","3">>, <<"a","u","t","h","-","f","l","o","w">>, <<"A","P","I","!">>, <<"l","o","g","_","i","n","\t">>},
                     MaxWords)

\* analysis before analyzeTicketContent has run.
NoAnalysis ==
    [primaryAction |-> Null, actions |-> << >>, entities |-> << >>,
     techTerms |-> << >>, rankedTokens |-> << >>, originalSummary |-> << >>]

(***************************************************************************)
(* State machine                                                           *)
(***************************************************************************)
\* The configuration the constructor of AIService starts from.
DefaultAIConfig ==
    [provider |-> <<"o","p","e","n","a","i">>, baseURL |-> Null,
     temperature |-> <<"0",".","3">>, maxTokens |-> 500,
     summaryTemperature |-> <<"0",".","2">>, summaryMaxTokens |-> 50]

\* The configuration and chat model of an AIService and its last request.
providerState == <<aiConfig, chatModel, request, invoked, warning>>

\* The state of createBranch.
flowState == <<yes, branch, repo, commands, checked>>

\* No service constructed and no branch-creation flow started.
IdleExtra ==
    /\ aiConfig = DefaultAIConfig /\ chatModel = Null /\ request = Null
    /\ invoked = Null /\ warning = Null
    /\ yes = FALSE /\ branch = Null /\ repo = {} /\ commands = << >>
    /\ checked = Null

Idle ==
    /\ IdleExtra
    /\ isEnabled = FALSE /\ calls = 0 /\ response = Null /\ aiSummary = Null
    /\ analysis = NoAnalysis /\ nameParts = << >> /\ generativeName = << >>
    /\ result = Null /\ tokens = << >>
    /\ method = "none" /\ returned = Null /\ error = Null
    /\ commitLog = << >> /\ commitMessage = Null /\ configLoaded = FALSE
    /\ sent = Null /\ prTitle = Null

\* A call of BranchNameGenerator.generate.
Init ==
    /\ issueKey \in TicketIds
    /\ summary \in Summaries
    /\ description \in Descriptions
    /\ prefix \in {Null, << >>, <<"f","e","a","t","u","r","e">>}
                 \cup {Rep("x", n) : n \in (MaxPrefixLen - 2)..MaxPrefixLen}
    /\ openaiApiKey \in ApiKeys
    /\ text = << >>
    /\ pc = "generate"
    /\ tier = "none"
    /\ Idle

\* A call of generateFallback alone.
InitFallback ==
    /\ issueKey = <<"E","H","-","1","2","3","4">>
    /\ summary \in FallbackSummaries
    /\ description \in {Null, <<"U","s","e","r","s"," ","c","a","n","n","o","t"," ","r","e","s","e","t"," ","t","h","e"," ","l","o","g","i","n"," ","p","a","g","e">>}
    /\ prefix \in {Null, <<"f","e","a","t","u","r","e">>}
    /\ openaiApiKey = Null
    /\ text = << >>
    /\ pc = "fallback"
    /\ tier = "rules"
    /\ Idle

\* A call of tokenizeText alone.
InitTokenize ==
    /\ issueKey = << >> /\ summary = << >> /\ description = Null /\ prefix = Null
    /\ openaiApiKey = Null
    /\ text \in Texts
    /\ pc = "tokenize"
    /\ tier = "none"
    /\ Idle

inputs == <<issueKey, summary, description, prefix, openaiApiKey, text>>

\* The state of the AIService methods called alone and of PullRequestGenerator.
others == <<method, returned, error,
            commitLog, commitMessage, configLoaded, sent, prTitle,
            providerState, flowState>>

\* generate: `if (openaiApiKey)`.
CheckApiKey ==
    /\ pc = "generate"
    /\ pc' = IF Truthy(openaiApiKey) THEN "newService" ELSE "fallback"
    /\ tier' = IF Truthy(openaiApiKey) THEN "model" ELSE "rules"
    /\ UNCHANGED <<inputs, others, isEnabled, calls, response, aiSummary,
                   analysis, nameParts, generativeName, result, tokens>>

\* new AIService(openaiApiKey): createAIProvider returns or throws; the
\* constructor catches the error and leaves the service disabled.
NewAIService ==
    /\ pc = "newService"
    /\ \E created \in BOOLEAN : isEnabled' = created
    /\ pc' = "summary"
    /\ UNCHANGED <<inputs, others, calls, response, aiSummary, tier,
                   analysis, nameParts, generativeName, result, tokens>>

\* generateBranchSummary up to the await: null at once when disabled,
\* otherwise the chat-completion request goes out.
GenerateBranchSummary ==
    /\ pc = "summary"
    /\ IF ~isEnabled
       THEN /\ aiSummary' = Null
            /\ pc' = "summarised"
            /\ UNCHANGED calls
       ELSE /\ calls' = calls + 1
            /\ pc' = "await"
            /\ UNCHANGED aiSummary
    /\ UNCHANGED <<inputs, others, isEnabled, response, tier,
                   analysis, nameParts, generativeName, result, tokens>>

\* The value generateBranchSummary returns for an outcome r of chatModel.invoke:
\* createChatCompletion throws on a rejection and on empty content, and
\* generateBranchSummary turns every error into null.
summaryOf(r) ==
    IF r = Throws \/ ~Truthy(r) THEN Null
    ELSE IF Truthy(trim(r)) THEN trim(r) ELSE Null

\* ChatCompletion that issues the request again after a rejected call.
ChatCompletionRetry ==
    /\ pc = "await"
    /\ \E r \in Responses :
         /\ response' = r
         /\ aiSummary' = summaryOf(r)
         /\ IF r = Throws /\ calls < 2
            THEN /\ calls' = calls + 1
                 /\ pc' = "await"
            ELSE /\ pc' = "summarised"
                 /\ UNCHANGED calls
    /\ UNCHANGED <<inputs, others, isEnabled, tier,
                   analysis, nameParts, generativeName, result, tokens>>

\* The provider answers; generateBranchSummary returns.
ChatCompletion ==
    /\ pc = "await"
    /\ \E r \in Responses :
         /\ response' = r
         /\ aiSummary' = summaryOf(r)
    /\ pc' = "summarised"
    /\ UNCHANGED <<inputs, others, isEnabled, calls, tier,
                   analysis, nameParts, generativeName, result, tokens>>

\* generate: `if (aiSummary)` and the model branch.
UseSummary ==
    /\ pc = "summarised"
    /\ IF Truthy(aiSummary)
       THEN /\ result' = composeBranch(issueKey, aiSummary, prefix)
            /\ pc' = "done"
            /\ UNCHANGED tier
       ELSE /\ pc' = "fallback"
            /\ tier' = "rules"
            /\ UNCHANGED result
    /\ UNCHANGED <<inputs, others, isEnabled, calls, response, aiSummary,
                   analysis, nameParts, generativeName, tokens>>

\* AnalyzeTicketContent that is not handed the description.
AnalyzeTicketContentNoDescription ==
    /\ pc = "fallback"
    /\ analysis' = analyzeTicketContent(summary, Null)
    /\ pc' = "analysed"
    /\ UNCHANGED <<inputs, others, isEnabled, calls, response, aiSummary, tier,
                   nameParts, generativeName, result, tokens>>

\* generateFallback: analyzeTicketContent.
AnalyzeTicketContent ==
    /\ pc = "fallback"
    /\ analysis' = analyzeTicketContent(summary, description)
    /\ pc' = "analysed"
    /\ UNCHANGED <<inputs, others, isEnabled, calls, response, aiSummary, tier,
                   nameParts, generativeName, result, tokens>>

\* generateConciseName: the primary action and the loop over rankedTokens.
WalkRankedTokens ==
    /\ pc = "analysed"
    /\ nameParts' = rankedParts(analysis).nameParts
    /\ pc' = "walked"
    /\ UNCHANGED <<inputs, others, isEnabled, calls, response, aiSummary, tier,
                   analysis, generativeName, result, tokens>>

\* generateConciseName: the backfill from the summary, the cleanup and the return.
GenerateConciseName ==
    /\ pc = "walked"
    /\ nameParts' = collectNameParts(analysis)
    /\ generativeName' = generateConciseName(analysis)
    /\ pc' = "named"
    /\ UNCHANGED <<inputs, others, isEnabled, calls, response, aiSummary, tier,
                   analysis, result, tokens>>

\* generateFallback: composition and length enforcement.
ComposeFallback ==
    /\ pc = "named"
    /\ result' = composeBranch(issueKey, generativeName, prefix)
    /\ pc' = "done"
    /\ UNCHANGED <<inputs, others, isEnabled, calls, response, aiSummary, tier,
                   analysis, nameParts, generativeName, tokens>>

\* tokenizeText(text).
TokenizeText ==
    /\ pc = "tokenize"
    /\ tokens' = tokenizeText(text)
    /\ pc' = "done"
    /\ UNCHANGED <<inputs, others, isEnabled, calls, response, aiSummary, tier,
                   analysis, nameParts, generativeName, result>>

NextFallback ==
    \/ AnalyzeTicketContent
    \/ WalkRankedTokens
    \/ GenerateConciseName
    \/ ComposeFallback

Next ==
    \/ CheckApiKey
    \/ NewAIService
    \/ GenerateBranchSummary
    \/ ChatCompletion
    \/ UseSummary
    \/ NextFallback

NextTokenize == TokenizeText

Spec == Init /\ [][Next]_vars

SpecFallback == InitFallback /\ [][NextFallback]_vars

SpecTokenize == InitTokenize /\ [][NextTokenize]_vars

(***************************************************************************)
(* AIService methods called alone (src/ai-service.ts)                      *)
(***************************************************************************)
Methods == {"analyzeBranchName", "generateBranchSummary", "generateGithubPrTitle"}

\* Marker of JSON.parse throwing a SyntaxError.
SyntaxError == <<"SyntaxError">>

\* Contents the model returns to the analysis call.
FullAnalysisJson ==
    <<"{","\"","p","r","i","m","a","r","y","A","c","t","i","o","n","\"",":","\"","f","i","x","\"",",","\"","t","e","c","h","n","i","c","a","l","C","o","n","t","e","x","t","\"",":","[","\"","a","u","t","h","\"","]",",","\"","b","u","s","i","n","e","s","s","C","o","n","t","e","x","t","\"",":","[","\"","l","o","g","i","n","\"","]",",","\"","s","u","g","g","e","s","t","e","d","B","r","a","n","c","h","N","a","m","e","\"",":","\"","E","H","-","1","2","3","4","-","f","i","x","-","a","u","t","h","\"",",","\"","r","e","a","s","o","n","i","n","g","\"",":","\"","r","\"","}">>

PartialAnalysisJson == <<"{","\"","p","r","i","m","a","r","y","A","c","t","i","o","n","\"",":","\"","f","i","x","\"",",","\"","s","u","g","g","e","s","t","e","d","B","r","a","n","c","h","N","a","m","e","\"",":","\"","E","H","-","1","2","3","4","-","f","i","x","-","a","u","t","h","\"","}">>

TruncatedAnalysisJson == <<"{","\"","p","r","i","m","a","r","y","A","c","t","i","o","n","\"",":","\"","f","i","x","\"",",","\"","t","e","c","h","n","i","c","a","l","C","o","n","t","e","x","t","\"",":","[","\"","a","u">>

ProseAnswer == <<"S","u","r","e","!"," ","H","e","r","e"," ","i","s"," ","t","h","e"," ","b","r","a","n","c","h"," ","n","a","m","e",":"," ","E","H","-","1","2","3","4","-","f","i","x","-","a","u","t","h">>

\* JSON.parse on the contents of the model: the parsed value, as <<kind, field
\* names>>, Null for the JSON text null, SyntaxError for a text that is not JSON.
JSONparse(content) ==
    CASE content = FullAnalysisJson ->
             <<"object", {"primaryAction", "technicalContext", "businessContext",
                          "suggestedBranchName", "reasoning"}>>
      [] content = PartialAnalysisJson -> <<"object", {"primaryAction", "suggestedBranchName"}>>
      [] content = <<"{","}">> -> <<"object", {}>>
      [] content = <<"[","]">> -> <<"array", {}>>
      [] content = <<"n","u","l","l">> -> Null
      [] OTHER -> SyntaxError

\* What chatModel.invoke can do in the analysis call.
AnalysisResponses ==
    {Throws, Null, << >>, FullAnalysisJson, PartialAnalysisJson, TruncatedAnalysisJson,
     ProseAnswer, <<"{","}">>, <<"[","]">>, <<"n","u","l","l">>}

\* analyzeBranchName with JSON.parse after the try block, so that the
\* SyntaxError of a text that is not JSON is not caught.
analyzeBranchNameParseUncaught(r) ==
    IF r = Throws \/ ~Truthy(r) THEN [returned |-> Null, error |-> Null]
    ELSE IF JSONparse(r) = SyntaxError
    THEN [returned |-> Null, error |-> <<"U","n","e","x","p","e","c","t","e","d"," ","t","o","k","e","n"," ","i","n"," ","J","S","O","N">>]
    ELSE [returned |-> JSONparse(r), error |-> Null]

\* analyzeBranchName for an outcome r of chatModel.invoke: the value it
\* returns and the message of the error it raises (Null when it returns). A
\* rejection, empty content and a SyntaxError are thrown inside the try block
\* and caught.
analyzeBranchName(r) ==
    LET thrown == \/ r = Throws
                  \/ ~Truthy(r)
                  \/ JSONparse(r) = SyntaxError
    IN  IF thrown THEN [returned |-> Null, error |-> Null]
        ELSE [returned |-> JSONparse(r), error |-> Null]

\* The outcome of a method for an outcome r of chatModel.invoke;
\* generateBranchSummary and generateGithubPrTitle return summaryOf(r).
methodOutcome(m, r) ==
    IF m = "analyzeBranchName" THEN analyzeBranchName(r)
    ELSE [returned |-> summaryOf(r), error |-> Null]

responsesOf(m) == IF m = "analyzeBranchName" THEN AnalysisResponses ELSE Responses

\* The state of generate and of tokenizeText, unused by these methods.
branchState ==
    <<prefix, openaiApiKey, text, aiSummary, tier, analysis, nameParts,
      generativeName, result, tokens, providerState, flowState>>

\* A call of one of the three methods on a service that was constructed
\* enabled or disabled.
InitService ==
    /\ method \in Methods
    /\ isEnabled \in BOOLEAN
    /\ issueKey \in TicketIds
    /\ summary \in Summaries
    /\ description \in Descriptions
    /\ prefix = Null /\ openaiApiKey = Null /\ text = << >>
    /\ pc = "service"
    /\ tier = "none"
    /\ calls = 0 /\ response = Null /\ aiSummary = Null
    /\ analysis = NoAnalysis /\ nameParts = << >> /\ generativeName = << >>
    /\ result = Null /\ tokens = << >>
    /\ returned = Null /\ error = Null
    /\ commitLog = << >> /\ commitMessage = Null /\ configLoaded = FALSE
    /\ sent = Null /\ prTitle = Null
    /\ IdleExtra

\* The method up to its await: null at once when the service is disabled,
\* otherwise the chat-completion request goes out.
CallService ==
    /\ pc = "service"
    /\ IF ~isEnabled
       THEN /\ pc' = "serviceDone"
            /\ UNCHANGED calls
       ELSE /\ calls' = calls + 1
            /\ pc' = "serviceAwait"
    /\ UNCHANGED <<branchState, issueKey, summary, description, isEnabled, response,
                   others>>

\* The provider answers; the method returns.
ServiceAnswer ==
    /\ pc = "serviceAwait"
    /\ \E r \in responsesOf(method) :
         /\ response' = r
         /\ returned' = methodOutcome(method, r).returned
         /\ error' = methodOutcome(method, r).error
    /\ pc' = "serviceDone"
    /\ UNCHANGED <<branchState, issueKey, summary, description, isEnabled, calls,
                   method, commitLog, commitMessage, configLoaded, sent, prTitle>>

NextService == CallService \/ ServiceAnswer

SpecService == InitService /\ [][NextService]_vars

(***************************************************************************)
(* PullRequestGenerator.generate (src/pull_request.ts)                     *)
(***************************************************************************)
\* What `git log --pretty=format:"%s"` prints: newest subject first.
CommitLogs == {
    << >>,
    <<" ","\n","\t">>,
    <<"F","i","x"," ","l","o","g","i","n"," ","b","u","g">>,
    <<"A","d","d"," ","t","e","s","t","s","\n","F","i","x"," ","l","o","g","i","n"," ","b","u","g">>,
    <<"A","d","d"," ","t","e","s","t","s","\r","\n","\r","\n","F","i","x"," ","l","o","g","i","n"," ","b","u","g","\r"," ","\n">>,
    <<"F","i","x"," ">> \o Rep("a", MaxSubjectLen)
}

\* What chatModel.invoke can do in the PR-title call.
TitleResponses ==
    {Throws, Null, << >>, <<" ","\n">>, <<"F","i","x"," ","l","o","g","i","n"," ","b","u","g">>, <<" ","F","i","x"," ","l","o","g","i","n"," ","b","u","g"," ","a","n","d"," ","a","d","d"," ","t","e","s","t","s","\n">>}

ApiKeyRequired == <<"O","p","e","n","A","I"," ","A","P","I"," ","k","e","y"," ","i","s"," ","r","e","q","u","i","r","e","d"," ","f","o","r"," ","P","R"," ","g","e","n","e","r","a","t","i","o","n">>

NoCommitMessage == <<"N","o"," ","c","o","m","m","i","t"," ","m","e","s","s","a","g","e"," ","f","o","u","n","d">>

TitleFailed == <<"F","a","i","l","e","d"," ","t","o"," ","g","e","n","e","r","a","t","e"," ","P","R"," ","t","i","t","l","e"," ","w","i","t","h"," ","A","I">>

\* The catch of generate: `AI branch generation failed: ${error.message}`.
wrapError(message) == <<"A","I"," ","b","r","a","n","c","h"," ","g","e","n","e","r","a","t","i","o","n"," ","f","a","i","l","e","d",":"," ">> \o message

\* .replace(/\r\n/g, '\n').replace(/\r/g, '\n')
normalizeNewlines(s) ==
    LET kept == SelectSeq(indices(Len(s)),
                          LAMBDA i : ~(s[i] = "\r" /\ i < Len(s) /\ s[i + 1] = "\n"))
    IN  [k \in 1..Len(kept) |-> IF s[kept[k]] = "\r" THEN "\n" ELSE s[kept[k]]]

\* commitList: the non-blank subject lines, oldest first.
commitListOf(log) ==
    LET newestFirst == SelectSeq(split(normalizeNewlines(trim(log)), "\n"),
                                 LAMBDA msg : Truthy(trim(msg)))
    IN  [i \in 1..Len(newestFirst) |-> newestFirst[Len(newestFirst) + 1 - i]]

\* commitMessage: the subjects joined by newlines.
commitMessageOf(log) == join(commitListOf(log), <<"\n">>)

\* A call of PullRequestGenerator.generate.
InitPullRequest ==
    /\ openaiApiKey \in ApiKeys
    /\ commitLog \in CommitLogs
    /\ issueKey = << >> /\ summary = << >> /\ description = Null /\ prefix = Null
    /\ text = << >>
    /\ pc = "prGenerate"
    /\ tier = "none"
    /\ isEnabled = FALSE /\ calls = 0 /\ response = Null /\ aiSummary = Null
    /\ analysis = NoAnalysis /\ nameParts = << >> /\ generativeName = << >>
    /\ result = Null /\ tokens = << >>
    /\ method = "none" /\ returned = Null /\ error = Null
    /\ commitMessage = Null /\ configLoaded = FALSE
    /\ sent = Null /\ prTitle = Null
    /\ IdleExtra

\* The state generate of PullRequestGenerator leaves alone.
prUnused ==
    <<issueKey, summary, description, prefix, text, aiSummary, tier, analysis,
      nameParts, generativeName, tokens, method, returned, openaiApiKey, commitLog,
      providerState, flowState>>

\* generate: `if (!openaiApiKey) throw`, before the try block.
PrCheckApiKey ==
    /\ pc = "prGenerate"
    /\ IF ~Truthy(openaiApiKey)
       THEN /\ error' = ApiKeyRequired
            /\ pc' = "prRaised"
       ELSE /\ pc' = "prConfig"
            /\ UNCHANGED error
    /\ UNCHANGED <<prUnused, isEnabled, calls, response, result,
                   commitMessage, configLoaded, sent, prTitle>>

\* ConfigManager.load and AIService.create: initialize catches the error of
\* createAIProvider and leaves the service disabled.
PrCreateService ==
    /\ pc = "prConfig"
    /\ configLoaded' = TRUE
    /\ \E created \in BOOLEAN : isEnabled' = created
    /\ pc' = "prCommits"
    /\ UNCHANGED <<prUnused, calls, response, result, error,
                   commitMessage, sent, prTitle>>

\* PrReadCommits without the check of an empty commitMessage.
PrReadCommitsUnchecked ==
    /\ pc = "prCommits"
    /\ commitMessage' = commitMessageOf(commitLog)
    /\ pc' = "prTitle"
    /\ UNCHANGED <<prUnused, isEnabled, calls, response, result, error,
                   configLoaded, sent, prTitle>>

\* The git commands: execSync of git log throws, or commitMessage is built and
\* an empty one throws 'No commit message found'; the catch wraps both.
PrReadCommits ==
    /\ pc = "prCommits"
    /\ \E gitFails \in BOOLEAN :
         IF gitFails
         THEN /\ error' = wrapError(<<"C","o","m","m","a","n","d"," ","f","a","i","l","e","d",":"," ","g","i","t"," ","l","o","g">>)
              /\ pc' = "prRaised"
              /\ UNCHANGED commitMessage
         ELSE /\ commitMessage' = commitMessageOf(commitLog)
              /\ IF ~Truthy(commitMessageOf(commitLog))
                 THEN /\ error' = wrapError(NoCommitMessage)
                      /\ pc' = "prRaised"
                 ELSE /\ pc' = "prTitle"
                      /\ UNCHANGED error
    /\ UNCHANGED <<prUnused, isEnabled, calls, response, result,
                   configLoaded, sent, prTitle>>

\* generateGithubPrTitle up to its await: null at once when the service is
\* disabled, otherwise the prompt with the commit message goes out.
PrGenerateTitle ==
    /\ pc = "prTitle"
    /\ IF ~isEnabled
       THEN /\ prTitle' = Null
            /\ pc' = "prTitled"
            /\ UNCHANGED <<calls, sent>>
       ELSE /\ calls' = calls + 1
            /\ sent' = commitMessage
            /\ pc' = "prAwait"
            /\ UNCHANGED prTitle
    /\ UNCHANGED <<prUnused, isEnabled, response, result, error,
                   commitMessage, configLoaded>>

\* The provider answers; generateGithubPrTitle returns.
PrChatCompletion ==
    /\ pc = "prAwait"
    /\ \E r \in TitleResponses :
         /\ response' = r
         /\ prTitle' = summaryOf(r)
    /\ pc' = "prTitled"
    /\ UNCHANGED <<prUnused, isEnabled, calls, result, error,
                   commitMessage, configLoaded, sent>>

\* PrReturn that returns the newest commit subject when the model gave no title.
PrReturnWithFallback ==
    /\ pc = "prTitled"
    /\ result' = IF Truthy(prTitle) THEN prTitle
                 ELSE commitListOf(commitLog)[Len(commitListOf(commitLog))]
    /\ pc' = "prDone"
    /\ UNCHANGED <<prUnused, isEnabled, calls, response, error,
                   commitMessage, configLoaded, sent, prTitle>>

\* generate: `if (!prTitle) throw`, wrapped by the catch, else the title.
PrReturn ==
    /\ pc = "prTitled"
    /\ IF ~Truthy(prTitle)
       THEN /\ error' = wrapError(TitleFailed)
            /\ pc' = "prRaised"
            /\ UNCHANGED result
       ELSE /\ result' = prTitle
            /\ pc' = "prDone"
            /\ UNCHANGED error
    /\ UNCHANGED <<prUnused, isEnabled, calls, response,
                   commitMessage, configLoaded, sent, prTitle>>

NextPullRequest ==
    \/ PrCheckApiKey
    \/ PrCreateService
    \/ PrReadCommits
    \/ PrGenerateTitle
    \/ PrChatCompletion
    \/ PrReturn

SpecPullRequest == InitPullRequest /\ [][NextPullRequest]_vars

(***************************************************************************)
(* Construction of the provider and the parameters of a call               *)
(* (src/ai-providers.ts, src/ai-service.ts)                                *)
(***************************************************************************)
SupportedProviders == {<<"o","p","e","n","a","i">>, <<"a","n","t","h","r","o","p","i","c">>, <<"g","o","o","g","l","e">>, <<"a","z","u","r","e">>}

\* Configurations after the merge of defaults, file and custom values: the
\* four provider kinds of createAIProvider and one it does not know, with no
\* base endpoint, an empty one and a usual one.
AIConfigs ==
    {[DefaultAIConfig EXCEPT !.provider = p, !.baseURL = b,
                             !.temperature = tm[1], !.maxTokens = tm[2]] :
        p \in SupportedProviders \cup {<<"c","o","h","e","r","e">>},
        b \in {Null, << >>, <<"h","t","t","p","s",":","/","/","e","x","a","m","p","l","e",".","o","p","e","n","a","i",".","a","z","u","r","e",".","c","o","m">>},
        tm \in {<<<<"0",".","3">>, 500>>, <<<<"0",".","7">>, 1000>>}}

\* providerError without the baseURL check of AzureProvider.
providerErrorAnyEndpoint(config) ==
    IF config.provider \notin SupportedProviders
    THEN <<"U","n","s","u","p","p","o","r","t","e","d"," ","A","I"," ","p","r","o","v","i","d","e","r",":"," ">> \o config.provider
    ELSE Null

\* The message of the error createAIProvider throws for a configuration, Null
\* when it returns a provider. The constructors of the LangChain chat models
\* are given a non-empty API key and do not throw.
providerError(config) ==
    IF config.provider \notin SupportedProviders
    THEN <<"U","n","s","u","p","p","o","r","t","e","d"," ","A","I"," ","p","r","o","v","i","d","e","r",":"," ">> \o config.provider
    ELSE IF config.provider = <<"a","z","u","r","e">> /\ ~Truthy(config.baseURL)
    THEN <<"F","a","i","l","e","d"," ","t","o"," ","i","n","i","t","i","a","l","i","z","e"," ","A","z","u","r","e"," ","O","p","e","n","A","I"," ","p","r","o","v","i","d","e","r",":"," ">>
             \o <<"A","z","u","r","e"," ","O","p","e","n","A","I"," ","r","e","q","u","i","r","e","s"," ","b","a","s","e","U","R","L"," ","t","o"," ","b","e"," ","c","o","n","f","i","g","u","r","e","d">>
    ELSE Null

\* The chat model initializeChatModel builds: it is configured with the
\* temperature and the token budget of the provider configuration.
initializeChatModel(config) == <<"chatModel", config.temperature, config.maxTokens>>

\* The temperature and maxTokens of the request a method builds.
requestOf(m, config) ==
    IF m = "analyzeBranchName"
    THEN <<config.temperature, config.maxTokens>>
    ELSE <<config.summaryTemperature, config.summaryMaxTokens>>

\* createChatCompletion: chatModel.invoke(messages) runs the model as it was
\* configured; the temperature and maxTokens of the request are not read.
invokeParameters(model, req) == <<model[2], model[3]>>

\* The state left alone while a service is built and called.
providerUnused ==
    <<issueKey, summary, description, prefix, text, aiSummary, tier, analysis,
      nameParts, generativeName, result, tokens, commitLog, commitMessage,
      configLoaded, sent, prTitle, flowState, openaiApiKey, aiConfig, method>>

\* An AIService about to be built from an API key and a configuration, and
\* the method called on it.
InitProvider ==
    /\ openaiApiKey \in ApiKeys
    /\ method \in Methods
    /\ issueKey = <<"E","H","-","1","2","3","4">> /\ summary = <<"D","o"," ","i","t">> /\ description = Null
    /\ prefix = Null /\ text = << >>
    /\ pc = "construct"
    /\ tier = "none"
    /\ isEnabled = FALSE /\ calls = 0 /\ response = Null /\ aiSummary = Null
    /\ analysis = NoAnalysis /\ nameParts = << >> /\ generativeName = << >>
    /\ result = Null /\ tokens = << >>
    /\ returned = Null /\ error = Null
    /\ commitLog = << >> /\ commitMessage = Null /\ configLoaded = FALSE
    /\ sent = Null /\ prTitle = Null
    /\ aiConfig \in AIConfigs
    /\ chatModel = Null /\ request = Null /\ invoked = Null /\ warning = Null
    /\ yes = FALSE /\ branch = Null /\ repo = {} /\ commands = << >>
    /\ checked = Null

\* The try block around createAIProvider, in the constructor and in
\* initialize: the provider configuration takes provider, baseURL, temperature
\* and maxTokens from aiConfig; the catch warns and leaves the service disabled.
buildProvider ==
    IF ~Truthy(openaiApiKey)
    THEN /\ UNCHANGED <<isEnabled, chatModel, warning>>
    ELSE IF providerError(aiConfig) # Null
    THEN /\ warning' = providerError(aiConfig)
         /\ isEnabled' = FALSE
         /\ UNCHANGED chatModel
    ELSE /\ chatModel' = initializeChatModel(aiConfig)
         /\ isEnabled' = TRUE
         /\ UNCHANGED warning

\* new AIService(apiKey, customConfig)
NewService ==
    /\ pc = "construct"
    /\ buildProvider
    /\ pc' = "constructed"
    /\ UNCHANGED <<providerUnused, calls, response, returned, error, request,
                   invoked>>

\* AIService.create(apiKey, customConfig): the configuration file is loaded
\* and initialize builds the provider.
CreateService ==
    /\ pc = "construct"
    /\ configLoaded' = TRUE
    /\ buildProvider
    /\ pc' = "constructed"
    /\ UNCHANGED <<issueKey, summary, description, prefix, text, aiSummary, tier,
                   analysis, nameParts, generativeName, result, tokens, commitLog,
                   commitMessage, sent, prTitle, flowState, openaiApiKey, aiConfig,
                   method, calls, response, returned, error, request, invoked>>

\* A method up to its await: null at once when the service is disabled,
\* otherwise the request is built and the chat model invoked.
CreateChatCompletion ==
    /\ pc = "constructed"
    /\ IF ~isEnabled
       THEN /\ pc' = "returned"
            /\ UNCHANGED <<calls, request, invoked>>
       ELSE /\ calls' = calls + 1
            /\ request' = requestOf(method, aiConfig)
            /\ invoked' = invokeParameters(chatModel, requestOf(method, aiConfig))
            /\ pc' = "invoked"
    /\ UNCHANGED <<providerUnused, isEnabled, chatModel, warning, response,
                   returned, error>>

\* The provider answers; the method returns.
ProviderAnswer ==
    /\ pc = "invoked"
    /\ \E r \in responsesOf(method) :
         /\ response' = r
         /\ returned' = methodOutcome(method, r).returned
         /\ error' = methodOutcome(method, r).error
    /\ pc' = "returned"
    /\ UNCHANGED <<providerUnused, isEnabled, chatModel, warning, calls, request,
                   invoked>>

NextProvider == NewService \/ CreateService \/ CreateChatCompletion \/ ProviderAnswer

SpecProvider == InitProvider /\ [][NextProvider]_vars

(***************************************************************************)
(* PullRequestGenerator.sanitizeBranchName (src/pull_request.ts)           *)
(***************************************************************************)
\* The backtick character U+0060, which a string of this module cannot hold.
Backtick == "backtick"

\* [a-zA-Z0-9\-_\/]
IsBranchChar(c) == IsWordChar(c) \/ c \in {"-", "/"}

\* .replace(/^\./, '')
stripLeadingDot(s) == IF s # << >> /\ s[1] = "." THEN Tail(s) ELSE s

\* .replace(/\.lock$/, '')
stripLockSuffix(s) ==
    IF endsWith(s, <<".","l","o","c","k">>) THEN SubSeq(s, 1, Len(s) - Len(<<".","l","o","c","k">>)) ELSE s

\* .replace(/`/g, '')
removeBackticks(s) == SelectSeq(s, LAMBDA c : c # Backtick)

\* .replace(/[^a-zA-Z0-9\-_\/]/g, '-')
replaceInvalidChars(s) == [i \in 1..Len(s) |-> IF IsBranchChar(s[i]) THEN s[i] ELSE "-"]

\* sanitizeBranchName that strips hyphens only, not slashes, from the ends.
sanitizeBranchNameKeepSlashes(branchName) ==
    removeBackticks(stripLockSuffix(stripLeadingDot(
        stripEdges(collapseRuns(replaceInvalidChars(branchName), {"-"}, "-"), {"-"}))))

sanitizeBranchName(branchName) ==
    removeBackticks(stripLockSuffix(stripLeadingDot(
        stripEdges(collapseRuns(replaceInvalidChars(branchName), {"-"}, "-"),
                   {"-", "/"}))))

\* The texts of SpecSanitize: all short texts of a few characters, and names
\* with dots, quotes and backticks.
SanitizeInputs ==
    TextsUpTo({"a", "9", "-", "_", "/", ".", " ", Backtick}, MaxNameLen)
    \cup {<<"f","i","x",".","l","o","c","k">>, <<".","g","i","t","/","c","o","n","f","i","g">>, <<"F","i","x",":"," ","u","s","e","r","'","s"," ","l","o","g","i","n","!">>, <<"-","/","f","i","x","-","-","a","u","t","h","/","-">>,
          <<Backtick>> \o <<"i","d">> \o <<Backtick>> \o <<" ","i","s"," ","n","u","l","l">>}

\* A call of sanitizeBranchName.
InitSanitize ==
    /\ issueKey = << >> /\ summary = << >> /\ description = Null /\ prefix = Null
    /\ openaiApiKey = Null
    /\ text \in SanitizeInputs
    /\ pc = "sanitize"
    /\ tier = "none"
    /\ Idle

\* The state a pure function of one text leaves alone.
pureUnused ==
    <<inputs, others, isEnabled, calls, response, aiSummary, tier, analysis,
      nameParts, generativeName, tokens>>

\* sanitizeBranchName(text)
SanitizeBranchName ==
    /\ pc = "sanitize"
    /\ result' = sanitizeBranchName(text)
    /\ pc' = "sanitized"
    /\ UNCHANGED pureUnused

\* sanitizeBranchName applied to its own output.
SanitizeAgain ==
    /\ pc = "sanitized"
    /\ result' = sanitizeBranchName(result)
    /\ pc' = "sanitizedTwice"
    /\ UNCHANGED pureUnused

NextSanitize == SanitizeBranchName \/ SanitizeAgain

SpecSanitize == InitSanitize /\ [][NextSanitize]_vars

(***************************************************************************)
(* extractJiraKey (src/index.ts)                                           *)
(***************************************************************************)
\* The text p occurs in s at index i.
occursAt(s, i, p) == i >= 1 /\ i + Len(p) - 1 <= Len(s) /\ SubSeq(s, i, i + Len(p) - 1) = p

\* The index of the last character of the longest run of characters of the
\* class that starts at index i; i - 1 when s[i] is not in the class.
runEnd(s, i, class) ==
    LET ends == {j \in i..Len(s) : \A m \in i..j : s[m] \in class}
    IN  IF ends = {} THEN i - 1 ELSE CHOOSE j \in ends : \A e \in ends : e <= j

\* [A-Z]+-\d+ matched at index i: the index of its last character, 0 for no
\* match. Both + are greedy and nothing shorter can match.
keyEnd(s, i) ==
    LET lettersEnd == runEnd(s, i, Range(UpperChars))
        digitsEnd == runEnd(s, lettersEnd + 2, DigitChars)
    IN  IF /\ i >= 1
           /\ lettersEnd >= i
           /\ lettersEnd + 1 <= Len(s)
           /\ s[lettersEnd + 1] = "-"
           /\ digitsEnd >= lettersEnd + 2
        THEN digitsEnd
        ELSE 0

\* input.match(/\/browse\/([A-Z]+-\d+)/): group 1 of the leftmost match, or Null.
matchBrowseUrl(s) ==
    LET p == <<"/","b","r","o","w","s","e","/">>
        at == SelectSeq(indices(Len(s)),
                        LAMBDA i : occursAt(s, i, p) /\ keyEnd(s, i + Len(p)) > 0)
    IN  IF at = << >> THEN Null
        ELSE SubSeq(s, at[1] + Len(p), keyEnd(s, at[1] + Len(p)))

\* input.match(/\/projects\/[^\/]+\/issues\/([A-Z]+-\d+)/)
matchProjectUrl(s) ==
    LET p == <<"/","p","r","o","j","e","c","t","s","/">>
        q == <<"/","i","s","s","u","e","s","/">>
        keyStart(i) == runEnd(s, i + Len(p), Range(s) \ {"/"}) + 1 + Len(q)
        at == SelectSeq(indices(Len(s)),
                        LAMBDA i : /\ occursAt(s, i, p)
                                   /\ runEnd(s, i + Len(p), Range(s) \ {"/"}) >= i + Len(p)
                                   /\ occursAt(s, keyStart(i) - Len(q), q)
                                   /\ keyEnd(s, keyStart(i)) > 0)
    IN  IF at = << >> THEN Null
        ELSE SubSeq(s, keyStart(at[1]), keyEnd(s, keyStart(at[1])))

\* input.match(/([A-Z]+-\d+)(?=\?|$|#)/): a key followed by '?', '#' or the
\* end of the input, anywhere in the input.
matchUrlParam(s) ==
    LET followed(k) == k = Len(s) \/ s[k + 1] \in {"?", "#"}
        at == SelectSeq(indices(Len(s)),
                        LAMBDA i : keyEnd(s, i) > 0 /\ followed(keyEnd(s, i)))
    IN  IF at = << >> THEN Null ELSE SubSeq(s, at[1], keyEnd(s, at[1]))

\* String.prototype.toUpperCase
toUpperCase(s) ==
    LET UpperChar(c) ==
            IF c \in Range(LowerChars)
            THEN UpperChars[CHOOSE i \in 1..Len(LowerChars) : LowerChars[i] = c]
            ELSE c
    IN  [i \in 1..Len(s) |-> UpperChar(s[i])]

\* input.match(/^([A-Z]+-\d+)$/i): the whole input is letters of either
\* case, a hyphen and digits.
matchTicketId(s) ==
    IF keyEnd(toUpperCase(s), 1) = Len(s) /\ s # << >> THEN s ELSE Null

\* extractJiraKey(input): the key, or Throws when it throws InvalidFormat.
extractJiraKey(input) ==
    LET s == trim(input)
    IN  IF matchBrowseUrl(s) # Null THEN matchBrowseUrl(s)
        ELSE IF matchProjectUrl(s) # Null THEN matchProjectUrl(s)
        ELSE IF matchUrlParam(s) # Null THEN matchUrlParam(s)
        ELSE IF matchTicketId(s) # Null THEN toUpperCase(matchTicketId(s))
        ELSE Throws

\* The texts of SpecExtract: all short texts of ticket-id characters, ticket
\* ids, URLs and other texts.
ExtractInputs ==
    TextsUpTo({"E", "h", "-", "1", "/"}, MaxKeyLen)
    \cup {<<"E","H","-","1","2","3","4">>, <<"e","h","-","1","2","3","4">>, <<"E","h","-","1","2","3","4">>, <<"e","H","-","1","2","3","4">>, <<" ","E","H","-","1","2","3","4","\n">>,
          <<"h","t","t","p","s",":","/","/","c","o","m","p","a","n","y",".","a","t","l","a","s","s","i","a","n",".","n","e","t","/","b","r","o","w","s","e","/","E","H","-","1","2","3","4">>,
          <<"h","t","t","p","s",":","/","/","c","o","m","p","a","n","y",".","a","t","l","a","s","s","i","a","n",".","n","e","t","/","b","r","o","w","s","e","/","e","h","-","1","2","3","4">>,
          <<"h","t","t","p","s",":","/","/","c","o","m","p","a","n","y",".","a","t","l","a","s","s","i","a","n",".","n","e","t","/","b","r","o","w","s","e","/","E","H","-","1","2","3","4","?","f","o","c","u","s","e","d","C","o","m","m","e","n","t","I","d","=","5">>,
          <<"h","t","t","p","s",":","/","/","c","o","m","p","a","n","y",".","a","t","l","a","s","s","i","a","n",".","n","e","t","/","p","r","o","j","e","c","t","s","/","E","H","/","i","s","s","u","e","s","/","E","H","-","1","2","3","4">>,
          <<"h","t","t","p","s",":","/","/","c","o","m","p","a","n","y",".","a","t","l","a","s","s","i","a","n",".","n","e","t","/","p","r","o","j","e","c","t","s","/","/","i","s","s","u","e","s","/","E","H","-","1","2","3","4","x">>,
          <<"h","t","t","p","s",":","/","/","c","o","m","p","a","n","y",".","a","t","l","a","s","s","i","a","n",".","n","e","t","/","i","s","s","u","e","s","/","?","s","e","l","e","c","t","e","d","I","s","s","u","e","=","E","H","-","1","2","#","t","o","p">>,
          <<"E","H"," ","1","2","3","4">>, <<"E","H","-">>, <<"1","2","3","4">>, <<"f","i","x"," ","l","o","g","i","n">>}

\* A call of extractJiraKey.
InitExtract ==
    /\ issueKey = << >> /\ summary = << >> /\ description = Null /\ prefix = Null
    /\ openaiApiKey = Null
    /\ text \in ExtractInputs
    /\ pc = "extract"
    /\ tier = "none"
    /\ Idle

\* extractJiraKey(text) returns the key or throws; error is the first line of
\* the message.
ExtractJiraKey ==
    /\ pc = "extract"
    /\ IF extractJiraKey(text) = Throws
       THEN /\ error' = <<"I","n","v","a","l","i","d"," ","J","i","r","a"," ","t","i","c","k","e","t"," ","f","o","r","m","a","t","."," ","S","u","p","p","o","r","t","e","d"," ","f","o","r","m","a","t","s",":">>
            /\ pc' = "extractRaised"
            /\ UNCHANGED result
       ELSE /\ result' = extractJiraKey(text)
            /\ pc' = "extracted"
            /\ UNCHANGED error
    /\ UNCHANGED <<inputs, method, returned, commitLog, commitMessage, configLoaded,
                   sent, prTitle, providerState, flowState, isEnabled, calls, response,
                   aiSummary, tier, analysis, nameParts, generativeName, tokens>>

NextExtract == ExtractJiraKey

SpecExtract == InitExtract /\ [][NextExtract]_vars

(***************************************************************************)
(* BranchNameGenerator.ensureValidLength called alone (src/branch.ts)      *)
(***************************************************************************)
\* Branch names around the length limit: with and without a prefix, with a
\* ticket id with and without a hyphen, and with a hyphen, a slash or nothing
\* between the ticket id and the rest.
EnsureInputs ==
    {pre \o key \o sep \o Rep("c", n) :
        pre \in {<< >>, <<"f","e","a","t","u","r","e","/">>, Rep("x", MaxPrefixLen) \o <<"/">>},
        key \in {<<"E","H","-","1","2","3","4">>, <<"E","H">>},
        sep \in {<<"-">>, <<"/">>, <<"-","f","i","x","/">>, << >>},
        n \in (MaxSuffixLen - 2)..MaxSuffixLen}

\* A call of ensureValidLength.
InitEnsure ==
    /\ issueKey = << >> /\ summary = << >> /\ description = Null /\ prefix = Null
    /\ openaiApiKey = Null
    /\ text \in EnsureInputs
    /\ pc = "ensure"
    /\ tier = "none"
    /\ Idle

\* ensureValidLength(text)
EnsureValidLength ==
    /\ pc = "ensure"
    /\ result' = ensureValidLength(text)
    /\ pc' = "ensured"
    /\ UNCHANGED pureUnused

\* ensureValidLength applied to its own output.
EnsureAgain ==
    /\ pc = "ensured"
    /\ result' = ensureValidLength(result)
    /\ pc' = "ensuredTwice"
    /\ UNCHANGED pureUnused

NextEnsure == EnsureValidLength \/ EnsureAgain

SpecEnsure == InitEnsure /\ [][NextEnsure]_vars

(***************************************************************************)
(* createBranch, from the generated name on (src/unnamed/part_003)         *)
(***************************************************************************)
\* Names BranchNameGenerator.generate hands createBranch: model summaries of
\* Responses composed with the ticket id, and a rule-based name.
GeneratedNames ==
    {composeBranch(<<"E","H","-","1","2","3","4">>, summaryOf(r), p) :
        r \in {<<"f","i","x","-","a","u","t","h","-","b","u","g">>, <<"F","i","x"," ","a","u","t","h"," ","b","u","g",".">>, <<"'","d","r","o","p"," ","t","a","b","l","e","'">>},
        p \in {Null, <<"f","e","a","t","u","r","e">>}}
    \cup {generateFallback(<<"E","H","-","1","2","3","4">>, <<"F","i","x"," ","u","s","e","r"," ","a","u","t","h","e","n","t","i","c","a","t","i","o","n"," ","b","u","g">>, Null, Null)}

\* What the user types at a prompt of getEditableInput.
TypedTexts == {<< >>, <<"m","y","-","b","r","a","n","c","h">>, <<" ","f","e","a","t","u","r","e","/","E","H","-","1","2","3","4","-","l","o","g","i","n"," ","\n">>, <<"b","a","d"," ","n","a","m","e","!">>, <<"f","i","x","_","i","t">>}

\* getEditableInput: `input.trim() || defaultValue`.
getEditableInput(typed, defaultValue) ==
    IF Truthy(trim(typed)) THEN trim(typed) ELSE defaultValue

\* /^[a-zA-Z0-9\-_\/]+$/.test(name)
isValidBranchName(name) == name # << >> /\ \A i \in 1..Len(name) : IsBranchChar(name[i])

\* branchExists: `git rev-parse --verify` succeeds for the name.
branchExists(name, refs) == name \in refs

EmptyName == <<"B","r","a","n","c","h"," ","n","a","m","e"," ","c","a","n","n","o","t"," ","b","e"," ","e","m","p","t","y">>

InvalidName ==
    <<"B","r","a","n","c","h"," ","n","a","m","e"," ","c","a","n"," ","o","n","l","y"," ","c","o","n","t","a","i","n"," ","a","l","p","h","a","n","u","m","e","r","i","c"," ","c","h","a","r","a","c","t","e","r","s",","," ","h","y","p","h","e","n","s",","," ","u","n","d","e","r","s","c","o","r","e","s",","," ","a","n","d"," ","s","l","a","s","h","e","s">>

\* createBranch after BranchNameGenerator.generate has returned the name.
InitFlow ==
    /\ issueKey = <<"E","H","-","1","2","3","4">> /\ summary = << >> /\ description = Null /\ prefix = Null
    /\ openaiApiKey = Null /\ text = << >>
    /\ pc = "flowConfirm"
    /\ tier = "none"
    /\ isEnabled = FALSE /\ calls = 0 /\ response = Null /\ aiSummary = Null
    /\ analysis = NoAnalysis /\ nameParts = << >> /\ generativeName = << >>
    /\ result = Null /\ tokens = << >>
    /\ method = "none" /\ returned = Null /\ error = Null
    /\ commitLog = << >> /\ commitMessage = Null /\ configLoaded = FALSE
    /\ sent = Null /\ prTitle = Null
    /\ aiConfig = DefaultAIConfig /\ chatModel = Null /\ request = Null
    /\ invoked = Null /\ warning = Null
    /\ yes \in BOOLEAN
    /\ branch \in GeneratedNames
    /\ repo \in {{}, {branch}, {<<"m","y","-","b","r","a","n","c","h">>}, {branch, <<"m","y","-","b","r","a","n","c","h">>},
                 {branch, <<"m","y","-","b","r","a","n","c","h">>, <<"f","i","x","_","i","t">>}}
    /\ commands = << >>
    /\ checked = Null

\* The state createBranch leaves alone.
flowUnused ==
    <<inputs, isEnabled, calls, response, aiSummary, tier, analysis, nameParts,
      generativeName, result, tokens, returned, commitLog, commitMessage,
      configLoaded, sent, prTitle, aiConfig, chatModel, request, invoked, yes>>

\* `if (!options.yes)`: the user edits the name, which is validated; with
\* --yes the generated name goes on as it is.
ConfirmName ==
    /\ pc = "flowConfirm"
    /\ IF yes
       THEN /\ pc' = "flowCheck"
            /\ UNCHANGED <<branch, warning>>
       ELSE \E typed \in TypedTexts :
              LET finalBranchName == getEditableInput(typed, branch)
              IN  IF Len(finalBranchName) = 0
                  THEN /\ warning' = EmptyName
                       /\ pc' = "flowEnded"
                       /\ UNCHANGED branch
                  ELSE IF ~isValidBranchName(finalBranchName)
                  THEN /\ warning' = InvalidName
                       /\ pc' = "flowEnded"
                       /\ UNCHANGED branch
                  ELSE /\ branch' = finalBranchName
                       /\ pc' = "flowCheck"
                       /\ UNCHANGED warning
    /\ UNCHANGED <<flowUnused, method, error, repo, commands, checked>>

\* `if (branchExists(branchName))`
CheckBranchExists ==
    /\ pc = "flowCheck"
    /\ checked' = <<branch, branchExists(branch, repo)>>
    /\ pc' = IF branchExists(branch, repo) THEN "flowChoose" ELSE "flowCreate"
    /\ UNCHANGED <<flowUnused, method, error, warning, branch, repo, commands>>

\* The rename choice without the existence check of the new name.
renameUnchecked ==
    \E typed \in TypedTexts :
      LET newBranchName == getEditableInput(typed, branch)
      IN  IF Len(newBranchName) = 0
          THEN /\ warning' = EmptyName
               /\ pc' = "flowEnded"
               /\ UNCHANGED <<branch, checked>>
          ELSE IF ~isValidBranchName(newBranchName)
          THEN /\ warning' = InvalidName
               /\ pc' = "flowEnded"
               /\ UNCHANGED <<branch, checked>>
          ELSE /\ branch' = newBranchName
               /\ pc' = "flowCreate"
               /\ UNCHANGED <<warning, checked>>

\* The rename choice: the new name is read, validated and checked for existence.
rename ==
    \E typed \in TypedTexts :
      LET newBranchName == getEditableInput(typed, branch)
      IN  IF Len(newBranchName) = 0
          THEN /\ warning' = EmptyName
               /\ pc' = "flowEnded"
               /\ UNCHANGED <<branch, checked>>
          ELSE IF ~isValidBranchName(newBranchName)
          THEN /\ warning' = InvalidName
               /\ pc' = "flowEnded"
               /\ UNCHANGED <<branch, checked>>
          ELSE IF branchExists(newBranchName, repo)
          THEN /\ checked' = <<newBranchName, TRUE>>
               /\ warning' = <<"B","r","a","n","c","h"," ","'">> \o newBranchName \o <<"'"," ","a","l","s","o"," ","a","l","r","e","a","d","y"," ","e","x","i","s","t","s">>
               /\ pc' = "flowEnded"
               /\ UNCHANGED branch
          ELSE /\ checked' = <<newBranchName, FALSE>>
               /\ branch' = newBranchName
               /\ pc' = "flowCreate"
               /\ UNCHANGED warning

\* The branch exists and the user chooses Cancel.
ChooseCancel ==
    /\ pc = "flowChoose"
    /\ method' = "cancel"
    /\ pc' = "flowEnded"
    /\ UNCHANGED <<flowUnused, error, warning, branch, repo, commands, checked>>

\* The branch exists and the user chooses Checkout: `git checkout "<name>"`.
ChooseCheckout ==
    /\ pc = "flowChoose"
    /\ method' = "checkout"
    /\ commands' = Append(commands, <<"checkout", branch>>)
    /\ \E gitFails \in BOOLEAN :
         IF gitFails
         THEN /\ error' = <<"F","a","i","l","e","d"," ","t","o"," ","c","r","e","a","t","e"," ","b","r","a","n","c","h",":"," ","C","o","m","m","a","n","d"," ","f","a","i","l","e","d",":"," ","g","i","t"," ","c","h","e","c","k","o","u","t">>
              /\ pc' = "flowFailed"
         ELSE /\ pc' = "flowEnded"
              /\ UNCHANGED error
    /\ UNCHANGED <<flowUnused, warning, branch, repo, checked>>

\* The branch exists and the user chooses Rename.
ChooseRename ==
    /\ pc = "flowChoose"
    /\ method' = "rename"
    /\ rename
    /\ UNCHANGED <<flowUnused, error, repo, commands>>

\* `git checkout -b "<name>"`: git creates the branch, or fails and the
\* catch of createBranch reports it and exits.
CheckoutNewBranch ==
    /\ pc = "flowCreate"
    /\ commands' = Append(commands, <<"checkout -b", branch>>)
    /\ \E gitFails \in BOOLEAN :
         IF gitFails
         THEN /\ error' = <<"F","a","i","l","e","d"," ","t","o"," ","c","r","e","a","t","e"," ","b","r","a","n","c","h",":"," ","C","o","m","m","a","n","d"," ","f","a","i","l","e","d",":"," ","g","i","t"," ","c","h","e","c","k","o","u","t"," ","-","b">>
              /\ pc' = "flowFailed"
              /\ UNCHANGED repo
         ELSE /\ repo' = repo \cup {branch}
              /\ pc' = "flowDone"
              /\ UNCHANGED error
    /\ UNCHANGED <<flowUnused, method, warning, branch, checked>>

NextFlow ==
    \/ ConfirmName
    \/ CheckBranchExists
    \/ ChooseCancel
    \/ ChooseCheckout
    \/ ChooseRename
    \/ CheckoutNewBranch

SpecFlow == InitFlow /\ [][NextFlow]_vars

(***************************************************************************)
(* Properties                                                              *)
(***************************************************************************)
\* `${prefix}/` as the caller composes it, empty without a prefix.
prefixPart == IF Truthy(prefix) THEN prefix \o <<"/">> ELSE << >>

\* The part that follows `${ticketId}-` in the tier that produced the result.
generativePart == IF tier = "model" THEN aiSummary ELSE generativeName

\* The slug as composed, before length enforcement.
composedSlug == prefixPart \o issueKey \o <<"-">> \o generativePart

Returned == pc = "done" /\ result # Null

AllowedChars ==
    Range(UpperChars) \cup Range(LowerChars) \cup DigitChars \cup {"-", "_", "/"}

\* C1: the slug returned by generate is at most 50 characters long, for every
\* ticket id, summary, description, prefix and outcome of the model call.
C1_SlugAtMost50 == Returned => Len(result) <= MAX_BRANCH_LENGTH

\* C2: when length enforcement shortens a composed slug, the complete ticket
\* id of the caller still stands, unshortened, directly after the prefix.
C2_TicketIdKept ==
    Returned /\ Len(composedSlug) > MAX_BRANCH_LENGTH
        => startsWith(result, prefixPart \o issueKey)

\* C3: the slug returned by generate is non-empty, holds only characters of
\* [A-Za-z0-9\-_/], does not start with '.' and does not end with '.lock'.
C3_ValidCharacters ==
    Returned =>
        /\ result # << >>
        /\ \A i \in 1..Len(result) : result[i] \in AllowedChars
        /\ ~startsWith(result, <<".">>)
        /\ ~endsWith(result, <<".","l","o","c","k">>)

\* C4: without an API key, with a service that could not be constructed, with
\* a failed model call or a null or empty summary, generate returns exactly
\* what generateFallback returns for the same ticket id, summary, description
\* and prefix.
C4_FallbackOnFailure ==
    Returned /\ (\/ ~Truthy(openaiApiKey)
                 \/ ~isEnabled
                 \/ response = Throws
                 \/ ~Truthy(aiSummary))
        => result = generateFallback(issueKey, summary, description, prefix)

\* C4 witness: the model call failed and generate returned the fallback slug.
C4_Witness ==
    /\ Returned /\ Truthy(openaiApiKey) /\ isEnabled /\ response = Throws
    /\ Truthy(description)
    /\ result = generateFallback(issueKey, summary, description, prefix)

\* C5: the chat-completion call is issued at most once per generate, never
\* without an API key, never again after the call has been answered (so not
\* after a failure), and never once the deterministic fallback has started.
C5_AtMostOneCall ==
    /\ [](calls <= 1 /\ (~Truthy(openaiApiKey) => calls = 0))
    /\ [][(tier = "rules" \/ pc \in {"summarised", "done"}) => calls' = calls]_vars

\* C5 witness: one call was issued, it failed, and the fallback produced the slug.
C5_Witness ==
    Returned /\ calls = 1 /\ response = Throws /\ tier = "rules"

\* The cleaned join of the collected parts, before the cut to 30 characters.
cleanedParts == cleanupName(join(nameParts, <<"-">>))

Named == pc \in {"named", "done"} /\ tier = "rules"

\* C7 as stated: the assembled name is non-empty, is not a lone hyphen, and is
\* 'update' exactly when joining and cleaning the parts leaves an empty string.
C7_UpdateIffEmpty ==
    Named =>
        /\ generativeName # << >>
        /\ generativeName # <<"-">>
        /\ (generativeName = <<"u","p","d","a","t","e">> <=> cleanedParts = << >>)

\* C7 amended: the assembled name is non-empty, is not a lone hyphen, and is
\* 'update' exactly when joining and cleaning the parts leaves an empty string
\* or the word 'update' itself.
C7_UpdateIffEmptyOrUpdate ==
    Named =>
        /\ generativeName # << >>
        /\ generativeName # <<"-">>
        /\ (generativeName = <<"u","p","d","a","t","e">> <=> cleanedParts \in {<< >>, <<"u","p","d","a","t","e">>})

\* C7 witness: parts were collected, cleaning them left nothing, and the name
\* is the literal 'update'.
C7_Witness ==
    Named /\ nameParts # << >> /\ cleanedParts = << >> /\ generativeName = <<"u","p","d","a","t","e">>

\* C8: when the composed string is at most 50 characters, generateFallback
\* returns <ticketId>-<assembledName>, preceded by <prefix>/ exactly when a
\* non-empty prefix was given, the ticket id in the caller's letter case.
C8_ComposedUnchanged ==
    Returned /\ tier = "rules" /\ Len(composedSlug) <= MAX_BRANCH_LENGTH
        => result = (IF prefix \in {Null, << >>} THEN << >> ELSE prefix \o <<"/">>)
                        \o issueKey \o <<"-">> \o generativeName

\* C8 witness: a prefixed slug with an upper-case ticket id, and an unprefixed one.
C8_Witness ==
    /\ Returned /\ tier = "rules" /\ Len(composedSlug) <= MAX_BRANCH_LENGTH
    /\ prefix = <<"f","e","a","t","u","r","e">> /\ issueKey = <<"E","H","-","1","2","3","4">>
    /\ startsWith(result, <<"f","e","a","t","u","r","e","/","E","H","-","1","2","3","4","-">>)

\* The first element of s that is an action word, Null when there is none.
firstActionWord(s) ==
    IF \E i \in 1..Len(s) : s[i] \in ACTION_WORDS
    THEN s[CHOOSE i \in 1..Len(s) :
               /\ s[i] \in ACTION_WORDS
               /\ \A j \in 1..(i - 1) : s[j] \notin ACTION_WORDS]
    ELSE Null

\* The primary action C9 describes.
expectedPrimaryAction ==
    LET inSummary == firstActionWord(splitSpaces(toLowerCase(summary)))
        combined  == summary \o <<" ">> \o (IF Truthy(description) THEN description ELSE << >>)
    IN  IF inSummary # Null THEN inSummary
        ELSE firstActionWord(tokenizeText(combined))

\* C9: the primary action is the first action word of the summary's own words,
\* else the first action word among the tokens of summary plus description,
\* else absent; when present it is the first part of the assembled name and
\* occurs once among the parts.
C9_PrimaryAction ==
    Named =>
        /\ analysis.primaryAction = expectedPrimaryAction
        /\ analysis.primaryAction # Null =>
            /\ nameParts # << >>
            /\ nameParts[1] = analysis.primaryAction
            /\ Cardinality({i \in 1..Len(nameParts) : nameParts[i] = analysis.primaryAction}) = 1
            /\ \/ generativeName = analysis.primaryAction
               \/ startsWith(generativeName, analysis.primaryAction \o <<"-">>)

\* C9 witness: the summary's first action word is not the first action token
\* (the earlier one carries punctuation), and it leads the name.
C9_Witness ==
    /\ Named
    /\ analysis.primaryAction # Null
    /\ analysis.actions # << >>
    /\ analysis.actions[1] # analysis.primaryAction
    /\ nameParts[1] = analysis.primaryAction

\* The text tokenizeText splits: lower-cased, every character that is not a
\* word character, whitespace or hyphen replaced by a space.
cleanedText ==
    [i \in 1..Len(text) |->
        IF IsWordChar(text[i]) \/ IsSpace(text[i]) \/ text[i] = "-"
        THEN LowerChar(text[i]) ELSE " "]

\* The positions where a whitespace-separated word of cleanedText starts.
wordStarts ==
    {i \in 1..Len(cleanedText) :
        ~IsSpace(cleanedText[i]) /\ (i = 1 \/ IsSpace(cleanedText[i - 1]))}

\* The word of cleanedText that starts at position i.
wordAt(i) ==
    LET last == CHOOSE j \in i..Len(cleanedText) :
                    /\ \A k \in i..j : ~IsSpace(cleanedText[k])
                    /\ (j = Len(cleanedText) \/ IsSpace(cleanedText[j + 1]))
    IN  SubSeq(cleanedText, i, last)

\* The words C10 says are dropped.
dropped(word) ==
    Len(word) <= 2 \/ word \in STOP_WORDS \/ (\A i \in 1..Len(word) : word[i] \in DigitChars)

keptStarts == {i \in wordStarts : ~dropped(wordAt(i))}

\* C10: tokenizeText returns, in the order of the text, exactly the words of
\* the cleaned text that are longer than 2 characters, are no stop words and
\* are not made of digits only; no token is empty, a stop word or numeric.
C10_Tokenize ==
    pc = "done" /\ tier = "none" =>
        /\ Len(tokens) = Cardinality(keptStarts)
        /\ \A i \in keptStarts :
               tokens[Cardinality({j \in keptStarts : j < i}) + 1] = wordAt(i)
        /\ \A k \in 1..Len(tokens) :
               /\ tokens[k] # << >>
               /\ tokens[k] \notin STOP_WORDS
               /\ ~IsDigits(tokens[k])

\* C10 witness: a text of which some words are kept, in order, and some dropped.
C10_Witness ==
    /\ pc = "done" /\ tier = "none"
    /\ Len(tokens) >= 2
    /\ Cardinality(wordStarts) > Len(tokens)
    /\ \E i \in 1..Len(text) : text[i] \in Range(UpperChars)

\* The tokens of summary plus description, as analyzeTicketContent takes them.
combinedTokens ==
    tokenizeText(summary \o <<" ">> \o (IF Truthy(description) THEN description ELSE << >>))

\* The score C11 gives a token.
claimedScore(token) ==
      1
    + (IF token \in ACTION_WORDS THEN 5 ELSE 0)
    + (IF token \in TECH_KEYWORDS THEN 4 ELSE 0)
    + (IF token \in Range(analysis.entities) THEN 2 ELSE 0)
    + (IF Len(token) > 6 THEN 1 ELSE 0)
    - (IF token \in {<<"u","s","e","r">>, <<"s","y","s","t","e","m">>, <<"p","a","g","e">>, <<"f","o","r","m">>, <<"b","u","t","t","o","n">>, <<"f","i","e","l","d">>} THEN 1 ELSE 0)

\* The position of the first occurrence of token in toks.
firstOccurrence(toks, token) ==
    CHOOSE i \in 1..Len(toks) :
        /\ toks[i] = token
        /\ \A j \in 1..(i - 1) : toks[j] # token

\* C11: rankedTokens holds every distinct token exactly once, in descending
\* order of the score 1 (+5 action word) (+4 technical keyword) (+2 entity)
\* (+1 longer than 6) (-1 generic word), tokens of equal score in the order of
\* their first occurrence.
C11_RankedByScore ==
    pc = "analysed" =>
        LET toks   == combinedTokens
            ranked == analysis.rankedTokens
            score  == [t \in Range(toks) |-> claimedScore(t)]
            first  == [t \in Range(toks) |-> firstOccurrence(toks, t)]
        IN  /\ Range(ranked) = Range(toks)
            /\ Len(ranked) = Cardinality(Range(toks))
            /\ \A i, j \in 1..Len(ranked) :
                   i < j =>
                       \/ score[ranked[i]] > score[ranked[j]]
                       \/ /\ score[ranked[i]] = score[ranked[j]]
                          /\ first[ranked[i]] < first[ranked[j]]

\* C11 witness: a word of both sets outranks an earlier technical keyword, two
\* tokens tie, a generic word is ranked and a token occurs twice in the text.
C11_Witness ==
    /\ pc = "analysed"
    /\ LET toks   == combinedTokens
           ranked == analysis.rankedTokens
           score  == [t \in Range(toks) |-> claimedScore(t)]
           first  == [t \in Range(toks) |-> firstOccurrence(toks, t)]
       IN  /\ Len(ranked) < Len(toks)
           /\ <<"p","a","g","e">> \in Range(ranked)
           /\ \E i, j \in 1..Len(ranked) :
                  i < j /\ score[ranked[i]] = score[ranked[j]]
           /\ \E i, j \in 1..Len(ranked) :
                  /\ i < j
                  /\ ranked[i] \in ACTION_WORDS \cap TECH_KEYWORDS
                  /\ ranked[j] \in TECH_KEYWORDS
                  /\ first[ranked[j]] < first[ranked[i]]

\* The first k parts joined with hyphens.
joinedParts(k) == join(SubSeq(nameParts, 1, k), <<"-">>)

\* C12: the loop over the ranked tokens goes on only while the parts are
\* fewer than 4 and their join is shorter than 30, and ends early only for
\* one of these limits; the parts never exceed 4, also after backfill, and
\* the returned name never exceeds 30 characters.
C12_PartsAndLengthLimits ==
    /\ pc = "walked" =>
        /\ \A k \in 1..(Len(nameParts) - 1) :
               k < 4 /\ Len(joinedParts(k)) < MAX_GENERATIVE_LENGTH
        /\ (Len(nameParts) < 4 /\ Len(joinedParts(Len(nameParts))) < MAX_GENERATIVE_LENGTH)
               => Range(analysis.rankedTokens) \subseteq Range(nameParts)
    /\ (pc \in {"walked", "named", "done"} /\ tier = "rules") => Len(nameParts) <= 4
    /\ Named => Len(generativeName) <= MAX_GENERATIVE_LENGTH

\* C12 witness: the loop ended at 4 parts with ranked tokens left over.
C12_Witness ==
    /\ pc = "walked"
    /\ Len(nameParts) = 4
    /\ Len(joinedParts(4)) < MAX_GENERATIVE_LENGTH
    /\ ~(Range(analysis.rankedTokens) \subseteq Range(nameParts))

\* The words of the raw summary: lower-cased, every character that is not a
\* word character or whitespace turned into a space, split at whitespace.
rawSummaryWords == splitSpaces(replaceNonWordChars(toLowerCase(summary)))

\* The positions of the words C13 lets the backfill take.
backfillCandidates(used) ==
    {i \in 1..Len(rawSummaryWords) :
        /\ Len(rawSummaryWords[i]) > 3
        /\ rawSummaryWords[i] \notin STOP_WORDS
        /\ rawSummaryWords[i] \notin used}

\* The first 3 of these words, in summary order.
expectedBackfill(used) ==
    LET cand == backfillCandidates(used)
        nth(k) == CHOOSE i \in cand : Cardinality({j \in cand : j < i}) = k - 1
    IN  [k \in 1..Min(3, Cardinality(cand)) |-> rawSummaryWords[nth(k)]]

\* C13: the step after the loop appends words of the raw summary exactly when
\* the loop left fewer than 2 parts: then the first 3 words, in summary order,
\* that are longer than 3, no stop words and not used; otherwise nothing.
C13_Backfill ==
    [][pc = "walked" =>
          nameParts' = nameParts \o (IF Len(nameParts) < 2
                                     THEN expectedBackfill(Range(nameParts))
                                     ELSE << >>)]_vars

\* C13 witness: one part after the loop, and words of the summary appended.
C13_Witness ==
    /\ pc = "named"
    /\ Len(rankedParts(analysis).nameParts) = 1
    /\ Len(nameParts) > 1

(***************************************************************************)
(* Properties of the AIService methods                                     *)
(***************************************************************************)
\* C14: analyzeBranchName, generateBranchSummary and generateGithubPrTitle
\* never raise; a rejected request, empty content, content that is not JSON
\* (analysis call) and a disabled service each give null, and a disabled
\* service gives it without calling the provider.
C14_NeverRaises ==
    /\ error = Null
    /\ pc = "serviceDone" =>
         /\ ~isEnabled => (returned = Null /\ calls = 0)
         /\ (isEnabled /\ (response = Throws \/ response = Null \/ response = << >>))
              => returned = Null
         /\ (isEnabled /\ method = "analyzeBranchName"
               /\ response \in {TruncatedAnalysisJson, ProseAnswer})
              => returned = Null

\* The analysis call answered by JSON cut off at the token limit.
C14_Witness ==
    /\ pc = "serviceDone"
    /\ method = "analyzeBranchName"
    /\ isEnabled
    /\ response = TruncatedAnalysisJson
    /\ returned = Null
    /\ error = Null

AnalysisFields ==
    {"primaryAction", "technicalContext", "businessContext", "suggestedBranchName",
     "reasoning"}

\* C15: a non-null analysis returned by analyzeBranchName is an object that
\* has the fields primaryAction, technicalContext, businessContext,
\* suggestedBranchName and reasoning.
C15_AnalysisHasFields ==
    (pc = "serviceDone" /\ method = "analyzeBranchName" /\ returned # Null) =>
        (returned[1] = "object" /\ AnalysisFields \subseteq returned[2])

(***************************************************************************)
(* Properties of PullRequestGenerator.generate                             *)
(***************************************************************************)
\* C16: generate has no fallback title: a returned title is the non-empty
\* trimmed content of the model, and when generateGithubPrTitle gave null
\* (rejected request, empty or blank content, disabled service) generate
\* ends raising an error, with no title returned.
C16_NoTitleFallback ==
    /\ [](pc = "prDone" =>
            /\ response # Throws
            /\ response # Null
            /\ result = trim(response)
            /\ result # << >>)
    /\ [](pc = "prRaised" => (result = Null /\ error # Null))
    /\ [][(pc = "prTitled" /\ (~isEnabled \/ response = Throws \/ ~Truthy(response)
                                \/ trim(response) = << >>))
            => pc' = "prRaised"]_vars

\* The model answered with blank content and generate raised.
C16_Witness ==
    /\ pc = "prRaised"
    /\ isEnabled
    /\ calls = 1
    /\ response = <<" ","\n">>
    /\ result = Null
    /\ error = wrapError(TitleFailed)

\* C17: every error raised by PR-title generation has a message that starts
\* with 'AI PR generation failed: '.
C17_PrErrorPrefix ==
    pc = "prRaised" => startsWith(error, <<"A","I"," ","P","R"," ","g","e","n","e","r","a","t","i","o","n"," ","f","a","i","l","e","d",":"," ">>)

\* C18: the commit message sent to the model is cut to 2000 characters,
\* followed by an ellipsis marker when it was cut, and is whole otherwise.
C18_TruncatedTo2000 ==
    sent # Null =>
        IF Len(commitMessage) > 2000
        THEN /\ Len(sent) > 2000
             /\ Len(sent) <= 2000 + 3
             /\ SubSeq(sent, 1, 2000) = SubSeq(commitMessage, 1, 2000)
        ELSE sent = commitMessage

\* C19: generate with an empty summary ends with an error and returns no slug.
C19_EmptySummaryRaises ==
    (pc = "done" /\ ~Truthy(summary)) => (result = Null /\ error # Null)

\* A commit log without a non-blank subject line.
NoSubject(log) == \A i \in 1..Len(log) : log[i] \in SpaceChars

\* C20: a commit log without a non-blank subject makes generate raise 'No
\* commit message found' with no model call; a missing API key makes it raise
\* before the configuration is loaded and with no model call.
C20_ValidationBeforeModel ==
    /\ (commitMessage # Null /\ NoSubject(commitLog)) =>
           /\ pc = "prRaised"
           /\ endsWith(error, NoCommitMessage)
           /\ calls = 0
           /\ sent = Null
    /\ (~Truthy(openaiApiKey) /\ pc # "prGenerate") =>
           /\ pc = "prRaised"
           /\ error = ApiKeyRequired
           /\ ~configLoaded
           /\ calls = 0

\* A log of blank lines was read and generate raised.
C20_Witness ==
    /\ pc = "prRaised"
    /\ commitLog = <<" ","\n","\t">>
    /\ commitMessage = << >>
    /\ error = wrapError(NoCommitMessage)
    /\ calls = 0

(***************************************************************************)
(* Properties of the provider construction and of the call parameters      *)
(***************************************************************************)
\* C21: with an API key, the provider is not built for kind azure without a
\* base endpoint and for a kind outside openai, anthropic, google and azure,
\* and then no chat-completion call is made; for openai, anthropic and google
\* it is built whatever the base endpoint.
C21_FailsFastAtConstruction ==
    (pc # "construct" /\ Truthy(openaiApiKey)) =>
        LET kind == aiConfig.provider
            noEndpoint == aiConfig.baseURL = Null \/ aiConfig.baseURL = << >>
            bad == \/ kind \notin {<<"o","p","e","n","a","i">>, <<"a","n","t","h","r","o","p","i","c">>, <<"g","o","o","g","l","e">>, <<"a","z","u","r","e">>}
                   \/ (kind = <<"a","z","u","r","e">> /\ noEndpoint)
        IN  /\ bad => (chatModel = Null /\ warning # Null /\ calls = 0 /\ request = Null)
            /\ ~bad => (chatModel # Null /\ warning = Null)

\* An azure service without endpoint was built with a key and its method returned.
C21_Witness ==
    /\ pc = "returned"
    /\ Truthy(openaiApiKey)
    /\ aiConfig.provider = <<"a","z","u","r","e">>
    /\ aiConfig.baseURL = Null
    /\ chatModel = Null
    /\ calls = 0

\* C22: building an AIService with a key and a configuration createAIProvider
\* rejects (azure without base endpoint, unknown kind) raises to the caller.
C22_ConfigErrorRaised ==
    (pc # "construct" /\ Truthy(openaiApiKey)
       /\ (\/ aiConfig.provider \notin {<<"o","p","e","n","a","i">>, <<"a","n","t","h","r","o","p","i","c">>, <<"g","o","o","g","l","e">>, <<"a","z","u","r","e">>}
           \/ (aiConfig.provider = <<"a","z","u","r","e">> /\ ~Truthy(aiConfig.baseURL))))
        => error # Null

\* C23: the model runs with the temperature and token budget of the request:
\* the summary values for a branch-summary or PR-title call, the analysis
\* values for an analysis call.
C23_RequestParametersUsed ==
    invoked # Null =>
        /\ invoked = request
        /\ invoked = IF method = "analyzeBranchName"
                     THEN <<aiConfig.temperature, aiConfig.maxTokens>>
                     ELSE <<aiConfig.summaryTemperature, aiConfig.summaryMaxTokens>>

(***************************************************************************)
(* Properties of sanitizeBranchName                                        *)
(***************************************************************************)
\* C24: the output of sanitizeBranchName has only characters of
\* [A-Za-z0-9\-_/], no two hyphens in a row, no hyphen or slash at either
\* end, no leading dot, no '.lock' at the end and no backtick; sanitizing it
\* again leaves it as it is.
C24_SanitizedName ==
    /\ [](pc \in {"sanitized", "sanitizedTwice"} =>
            /\ \A i \in 1..Len(result) :
                   result[i] \in Range(UpperChars) \cup Range(LowerChars) \cup DigitChars
                                     \cup {"-", "_", "/"}
            /\ \A i \in 1..(Len(result) - 1) : ~(result[i] = "-" /\ result[i + 1] = "-")
            /\ result # << >> =>
                   /\ result[1] \notin {"-", "/", "."}
                   /\ result[Len(result)] \notin {"-", "/"}
            /\ ~endsWith(result, <<".","l","o","c","k">>)
            /\ \A i \in 1..Len(result) : result[i] # Backtick)
    /\ [][pc = "sanitized" => result' = result]_vars

\* A text with invalid characters, hyphens and slashes at its ends was
\* sanitized twice.
C24_Witness ==
    /\ pc = "sanitizedTwice"
    /\ text = <<"-","/","f","i","x","-","-","a","u","t","h","/","-">>
    /\ result = <<"f","i","x","-","a","u","t","h">>

(***************************************************************************)
(* Properties of extractJiraKey                                            *)
(***************************************************************************)
IsLetter(c) == c \in Range(UpperChars) \cup Range(LowerChars)

\* The text is a bare ticket id: letters of either case, a hyphen, digits.
IsBareTicketId(s) ==
    \E h \in 2..(Len(s) - 1) :
        /\ s[h] = "-"
        /\ \A i \in 1..(h - 1) : IsLetter(s[i])
        /\ \A i \in (h + 1)..Len(s) : s[i] \in DigitChars

\* The text is a URL.
IsUrl(s) == \E i \in 1..Len(s) : occursAt(s, i, <<":","/","/">>)

\* C25: for a bare ticket id in upper, lower or mixed case extractJiraKey
\* returns the whole id in upper case; every value it returns matches
\* ^[A-Z]+-\d+$; a text that is neither a ticket id nor a URL raises
\* 'Invalid Jira ticket format'.
C25_BareIdUpperCased ==
    /\ (pc # "extract" /\ IsBareTicketId(text)) =>
           (pc = "extracted" /\ result = toUpperCase(text))
    /\ pc = "extracted" =>
           (IsBareTicketId(result) /\ \A i \in 1..Len(result) : ~(result[i] \in Range(LowerChars)))
    /\ (pc # "extract" /\ ~IsBareTicketId(trim(text)) /\ ~IsUrl(text)) =>
           (pc = "extractRaised" /\ startsWith(error, <<"I","n","v","a","l","i","d"," ","J","i","r","a"," ","t","i","c","k","e","t"," ","f","o","r","m","a","t">>))

(***************************************************************************)
(* Properties of createBranch                                              *)
(***************************************************************************)
\* C26: `git checkout -b` is run only with the name the last existence check
\* found absent; after Cancel no git command has run; after Checkout the only
\* command is the checkout of the existing branch; after Rename a branch is
\* created only under a name other than the existing one.
C26_NoCreateOverExisting ==
    /\ [][commands' # commands =>
            LET run == commands'[Len(commands')]
            IN  /\ commands' = Append(commands, run)
                /\ run[1] = "checkout -b" =>
                       (checked = <<run[2], FALSE>> /\ run[2] \notin repo)
                /\ run[1] = "checkout" => (checked = <<run[2], TRUE>> /\ repo' = repo)]_vars
    /\ [](method = "cancel" => commands = << >>)
    /\ [](method = "checkout" => commands = <<<<"checkout", branch>>>>)
    /\ [](method = "rename" =>
            \A i \in 1..Len(commands) :
                /\ commands[i][1] = "checkout -b"
                /\ checked = <<commands[i][2], FALSE>>)

\* The generated name existed, the user renamed it and the new branch was created.
C26_Witness ==
    /\ pc = "flowDone"
    /\ method = "rename"
    /\ commands = <<<<"checkout -b", <<"f","i","x","_","i","t">>>>>>
    /\ checked = <<<<"f","i","x","_","i","t">>, FALSE>>
    /\ <<"f","i","x","_","i","t">> \in repo

\* C27: every name `git checkout -b` is run with is non-empty and has only
\* letters, digits, hyphens, underscores and slashes.
C27_CreatedNameValid ==
    \A i \in 1..Len(commands) :
        commands[i][1] = "checkout -b" =>
            /\ commands[i][2] # << >>
            /\ \A k \in 1..Len(commands[i][2]) :
                   commands[i][2][k] \in Range(UpperChars) \cup Range(LowerChars)
                                            \cup DigitChars \cup {"-", "_", "/"}

(***************************************************************************)
(* Further properties of generateConciseName and ensureValidLength         *)
(***************************************************************************)
\* C28: the name generateConciseName returns does not start or end with a
\* hyphen and has no two hyphens in a row.
C28_NoStrayHyphens ==
    (pc \in {"named", "done"} /\ tier = "rules") =>
        /\ generativeName # << >>
        /\ generativeName[1] # "-"
        /\ generativeName[Len(generativeName)] # "-"
        /\ \A i \in 1..(Len(generativeName) - 1) :
               ~(generativeName[i] = "-" /\ generativeName[i + 1] = "-")

\* C29: the entries of the parts list are pairwise distinct, after the walk
\* over the ranked tokens and after the backfill from the summary.
C29_PartsDistinct ==
    (pc \in {"walked", "named", "done"} /\ tier = "rules") =>
        \A i, j \in 1..Len(nameParts) : i # j => nameParts[i] # nameParts[j]

\* C30: the output of ensureValidLength is not longer than its input, and
\* applying ensureValidLength to it returns it unchanged.
C30_NotLongerAndIdempotent ==
    /\ [](pc = "ensured" => Len(result) <= Len(text))
    /\ [][pc = "ensured" => result' = result]_vars

====
